---------------------------- MODULE Spec2Model ----------------------------
(***************************************************************************)
(* CoreSight: log ingestion (legacy CoreSightEngine and LogIngester over   *)
(* the SQLite Indexer) and the SPL-like query layer (QueryParser,          *)
(* Indexer.query, QueryEngine).                                            *)
(*                                                                         *)
(* A log line is modelled by the features the parsers' regular expressions *)
(* and the JSON/XML decoders look at; a query is modelled as the sequence  *)
(* of its characters.                                                      *)
(***************************************************************************)
EXTENDS Integers, Sequences, FiniteSets, TLC

VARIABLES
    efile,      \* legacy engine: the lines of the file being ingested
    epos,       \* legacy engine: index of the next line of efile to read
    epc,        \* legacy engine: "idle" | "loop" | "done" | "raised"
    ecount,     \* legacy engine: local variable count of ingest_file
    elogs,      \* legacy engine: rows inserted into table logs, in order
    ecommitted, \* legacy engine: how many rows of elogs are committed
    ifile,      \* LogIngester: the lines of the file being ingested
    iarg,       \* LogIngester: the log_type argument of ingest_file
    ihint,      \* LogIngester: the format the file name hints at
    ilog_type,  \* LogIngester: local variable log_type
    ipos,       \* LogIngester: index of the next line of ifile to read
    ipc,        \* LogIngester: "idle" | "loop" | "done" | "error"
    icount,     \* LogIngester: local variable count
    ierrors,    \* LogIngester: local variable errors
    ibatch,     \* LogIngester: local variable batch
    logs,       \* Indexer: rows inserted into table logs, oldest first
    committed,  \* Indexer: how many rows of logs are committed
    qquery,     \* QueryEngine.search: argument query of the last search
    qwhere,     \* QueryEngine.search: local variable where_clause
    qresults,   \* QueryEngine.search: the list the last search returned
    pline,      \* ingestion of text: the line read from the file
    ptype,      \* ingestion of text: the log_type the line is parsed with
    pparsed,    \* ingestion of text: what the parser returned for the line
    dcolumns,   \* file coresight.db: the columns of table logs, {} without table
    drows,      \* file coresight.db: the committed rows of table logs
    dpending,   \* file coresight.db: rows inserted by the connection, not committed
    dconn,      \* file coresight.db: "closed" | "indexer" | "engine" | "raised"
    dnext,      \* file coresight.db: number of the next line that is ingested
    umode,       \* CoreSightApp.mode
    umenu_selection,  \* CoreSightApp.menu_selection
    uingest_buffer,   \* CoreSightApp.ingest_buffer
    uinput,      \* CoreSightApp.input, the InputBox: value and cursor
    utable,      \* CoreSightApp.table, the TableView: rows and scroll
    udashboard_view,  \* CoreSightApp.dashboard_view, the DashboardView
    urunning     \* CoreSightApp.run is in its loop

evars == <<efile, epos, epc, ecount, elogs, ecommitted>>
ivars == <<ifile, iarg, ihint, ilog_type, ipos, ipc, icount, ierrors, ibatch>>
svars == <<logs, committed>>
qvars == <<qquery, qwhere, qresults>>
pvars == <<pline, ptype, pparsed>>
dvars == <<dcolumns, drows, dpending, dconn, dnext>>
uvars == <<umode, umenu_selection, uingest_buffer, uinput, utable, udashboard_view,
           urunning>>
vars  == <<evars, ivars, svars, qvars, pvars, dvars, uvars>>

(***************************************************************************)
(* Bounds                                                                  *)
(***************************************************************************)
MaxLines == 3      \* longest file whose lines are chosen freely
LongLen  == 101    \* length of the long files (more than one batch)

None == [tag |-> "None"]     \* Python's None

(***************************************************************************)
(* Lines seen by the legacy engine (coresight_engine.py).                  *)
(*   head   : how the stripped line starts                                 *)
(*              blank    the stripped line is empty                        *)
(*              brace    starts with {                                     *)
(*              event    starts with <Event                                *)
(*              ip       starts with a dotted quad                         *)
(*              isodate  starts with YYYY-MM-DD[T ]HH:                     *)
(*              month    starts with Mon DD HH:MM:SS                       *)
(*              other    none of these                                     *)
(*   rbrace : the stripped line ends with }                                *)
(*   detail : what the extractor of that head finds                        *)
(***************************************************************************)
JsonDetails  == {"malformed", "plain", "event", "alert_obj", "alert_scalar"}
XmlDetails   == {"malformed", "no_system", "no_time", "no_eventid", "full"}
NginxDetails == {"noshape", "bad_status", "shape_ok"}
IsoDetails   == {"two_tokens", "three_tokens"}

EHeads == {"blank", "brace", "event", "ip", "isodate", "month", "other"}

ELineOK(l) ==
    /\ l.head = "brace" =>
          /\ l.detail \in JsonDetails
          /\ (l.detail # "malformed" => l.rbrace)   \* a JSON object ends with }
    /\ l.head = "event"   => l.detail \in XmlDetails /\ ~l.rbrace
    /\ l.head = "ip"      => l.detail \in NginxDetails /\ ~l.rbrace
    /\ l.head = "isodate" => l.detail \in IsoDetails /\ ~l.rbrace
    /\ l.head \in {"blank", "month", "other"} => l.detail = "na" /\ ~l.rbrace

ELines ==
    {l \in [head : EHeads, rbrace : BOOLEAN,
            detail : JsonDetails \cup XmlDetails \cup NginxDetails
                       \cup IsoDetails \cup {"na"}] : ELineOK(l)}

EFiles == UNION {[1..n -> ELines] : n \in 1..MaxLines}

(***************************************************************************)
(* Format probes of the legacy engine                                      *)
(***************************************************************************)
is_json(line)           == line.head = "brace" /\ line.rbrace
is_windows_xml(line)    == line.head = "event"
is_nginx(line)          == line.head = "ip" /\ line.detail # "noshape"
is_iso(line)            == line.head = "isodate"
is_classic_syslog(line) == line.head = "month"

(***************************************************************************)
(* Extractors of the legacy engine.  Each returns None, Raise when the     *)
(* Python code raises AttributeError, or the tuple that the code returns   *)
(* (tag "ok", with its timestamp class and its event label).               *)
(***************************************************************************)
Raise == [tag |-> "raise"]

parse_json(line) ==
    IF line.detail = "malformed" THEN None              \* json.loads raises
    ELSE IF line.detail = "event" THEN [tag |-> "ok", ts |-> "field", event |-> "event"]
    ELSE IF line.detail = "alert_scalar" THEN Raise     \* "x".get("signature")
    ELSE IF line.detail = "alert_obj" THEN [tag |-> "ok", ts |-> "field", event |-> "signature"]
    ELSE [tag |-> "ok", ts |-> "field", event |-> "json_event"]

parse_windows_xml(line) ==
    IF line.detail = "malformed" THEN None              \* ET.fromstring raises
    ELSE IF line.detail = "no_system"
         THEN [tag |-> "ok", ts |-> "unknown", event |-> "windows_event"]
    ELSE IF line.detail = "no_time" THEN Raise          \* None.attrib
    ELSE IF line.detail = "no_eventid" THEN Raise       \* None.text
    ELSE [tag |-> "ok", ts |-> "field", event |-> "windows_event_id"]

parse_nginx(line) ==
    IF line.detail = "bad_status" THEN None
    ELSE [tag |-> "ok", ts |-> "iso", event |-> "nginx_access"]

parse_iso_syslog(line) ==
    IF line.detail = "two_tokens" THEN None
    ELSE [tag |-> "ok", ts |-> "field", event |-> "syslog_iso"]

parse_classic_syslog(line) == [tag |-> "ok", ts |-> "iso", event |-> "syslog_event"]

parse_generic(line) == [tag |-> "ok", ts |-> "unknown", event |-> "generic_event"]

parse_universal(line) ==
    IF is_json(line) THEN parse_json(line)
    ELSE IF is_windows_xml(line) THEN parse_windows_xml(line)
    ELSE IF is_nginx(line) THEN parse_nginx(line)
    ELSE IF is_iso(line) THEN parse_iso_syslog(line)
    ELSE IF is_classic_syslog(line) THEN parse_classic_syslog(line)
    ELSE parse_generic(line)

\* _insert_event: the row appended to table logs
InsertEvent(parsed, line) ==
    [ts |-> parsed.ts, event |-> parsed.event, raw |-> line]

(***************************************************************************)
(* CoreSightEngine.ingest_file, one loop iteration per step                *)
(***************************************************************************)
\* ingest_file is called on a readable file
EngineOpen ==
    /\ epc = "idle"
    /\ \E f \in EFiles : efile' = f
    /\ epos' = 1
    /\ ecount' = 0
    /\ epc' = "loop"
    /\ UNCHANGED <<elogs, ecommitted>>
    /\ UNCHANGED <<ivars, svars, qvars, pvars, dvars, uvars>>

\* for line in f: a blank line is skipped
EngineSkipBlank ==
    /\ epc = "loop"
    /\ epos <= Len(efile)
    /\ efile[epos].head = "blank"
    /\ epos' = epos + 1
    /\ UNCHANGED <<efile, epc, ecount, elogs, ecommitted>>
    /\ UNCHANGED <<ivars, svars, qvars, pvars, dvars, uvars>>

\* for line in f: parse_universal returns a tuple, the row is inserted
EngineStoreLine ==
    /\ epc = "loop"
    /\ epos <= Len(efile)
    /\ efile[epos].head # "blank"
    /\ LET parsed == parse_universal(efile[epos]) IN
         /\ parsed.tag = "ok"
         /\ elogs' = Append(elogs, InsertEvent(parsed, efile[epos]))
    /\ ecount' = ecount + 1
    /\ epos' = epos + 1
    /\ UNCHANGED <<efile, epc, ecommitted>>
    /\ UNCHANGED <<ivars, svars, qvars, pvars, dvars, uvars>>

\* for line in f: parse_universal returns None, the line is dropped
EngineDropLine ==
    /\ epc = "loop"
    /\ epos <= Len(efile)
    /\ efile[epos].head # "blank"
    /\ parse_universal(efile[epos]) = None
    /\ epos' = epos + 1
    /\ UNCHANGED <<efile, epc, ecount, elogs, ecommitted>>
    /\ UNCHANGED <<ivars, svars, qvars, pvars, dvars, uvars>>

\* for line in f: parse_universal raises; nothing in ingest_file catches it
EngineRaise ==
    /\ epc = "loop"
    /\ epos <= Len(efile)
    /\ efile[epos].head # "blank"
    /\ parse_universal(efile[epos]) = Raise
    /\ epc' = "raised"
    /\ UNCHANGED <<efile, epos, ecount, elogs, ecommitted>>
    /\ UNCHANGED <<ivars, svars, qvars, pvars, dvars, uvars>>

\* end of file: commit and return the summary "Ingested {count} events"
EngineFinish ==
    /\ epc = "loop"
    /\ epos > Len(efile)
    /\ ecommitted' = Len(elogs)
    /\ epc' = "done"
    /\ UNCHANGED <<efile, epos, ecount, elogs>>
    /\ UNCHANGED <<ivars, svars, qvars, pvars, dvars, uvars>>

ENext ==
    \/ EngineOpen
    \/ EngineSkipBlank
    \/ EngineStoreLine
    \/ EngineDropLine
    \/ EngineRaise
    \/ EngineFinish


(***************************************************************************)
(* Lines seen by LogIngester and its three parsers.                        *)
(*   blank  : the stripped line is empty                                   *)
(*   ts     : the line starts with a timestamp that SyslogParser and       *)
(*            AuthParser recognise: "iso" (YYYY-MM-DD[T ]HH:MM:SS),        *)
(*            "classic" (Mon DD HH:MM:SS) or "none"                        *)
(*   access : "full" when AccessParser.PATTERN or SIMPLE_PATTERN matches,  *)
(*            "lenient" when only its fallback expression matches, "no"    *)
(*   size   : the size token of a full access line: "dash" (-), "small"    *)
(*            (fits 64 bits) or "huge" (does not fit 64 bits)              *)
(*   authkw : the line contains Accepted password, Failed password, sudo:  *)
(*            or authentication                                            *)
(***************************************************************************)
ILineOK(l) ==
    /\ l.blank => l.ts = "none" /\ l.access = "no"
    /\ (l.access = "full") <=> (l.size # "na")
    /\ l.access = "full" => l.ts = "none"   \* PATTERN starts with host - - [
    /\ l.authkw => l.ts # "none"

ILines ==
    {l \in [blank : BOOLEAN, ts : {"none", "iso", "classic"},
            access : {"no", "lenient", "full"},
            size : {"na", "dash", "small", "huge"},
            authkw : BOOLEAN] : ILineOK(l)}

GoodAccessLine ==
    [blank |-> FALSE, ts |-> "none", access |-> "full", size |-> "small",
     authkw |-> FALSE]

\* files of LongLen access lines, one of which (the first or the last) is
\* replaced by an arbitrary line
LongFiles ==
    {[i \in 1..LongLen |-> IF i = p THEN x ELSE GoodAccessLine] :
        p \in {1, LongLen}, x \in ILines}

IFiles == UNION {[1..n -> ILines] : n \in 1..MaxLines} \cup LongFiles

(***************************************************************************)
(* The parsers: None, or the dictionary they return                        *)
(***************************************************************************)
SyslogParser_parse(line) ==
    IF line.blank THEN None
    ELSE IF line.ts # "none"
         THEN [tag |-> "ok", keys |-> "syslog", timestamp |-> "iso",
               size |-> "absent"]
    ELSE None

AccessParser_parse(line) ==
    IF line.blank THEN None
    ELSE IF line.access = "full"
         THEN [tag |-> "ok", keys |-> "access", timestamp |-> "iso",
               size |-> IF line.size = "dash" THEN "zero" ELSE line.size]
    ELSE IF line.access = "lenient"
         THEN [tag |-> "ok", keys |-> "access", timestamp |-> "iso",
               size |-> "zero"]
    ELSE None

AuthParser_parse(line) ==
    IF line.blank THEN None
    ELSE IF line.ts # "none"
         THEN [tag |-> "ok", keys |-> "auth", timestamp |-> "iso",
               size |-> "absent"]
    ELSE None

(***************************************************************************)
(* Indexer.add_log and Indexer.commit                                      *)
(***************************************************************************)
\* the INSERT raises (OverflowError: the size does not fit an SQLite
\* INTEGER); add_log catches it and returns False
InsertRaises(parsed_data) == parsed_data.size = "huge"

\* table logs after add_log(log_type, parsed_data, raw_line)
add_log(table, log_type, parsed_data, raw_line) ==
    IF InsertRaises(parsed_data) THEN table
    ELSE Append(table,
                [log_type |-> log_type, keys |-> parsed_data.keys,
                 timestamp |-> parsed_data.timestamp,
                 size |-> IF parsed_data.size = "absent" THEN "zero"
                          ELSE parsed_data.size,
                 raw |-> raw_line])

\* for lt, pd, rl in batch: self.indexer.add_log(lt, pd, rl)
RECURSIVE AddBatch(_, _)
AddBatch(table, batch) ==
    IF batch = <<>> THEN table
    ELSE AddBatch(add_log(table, batch[1].lt, batch[1].pd, batch[1].rl),
                  Tail(batch))

(***************************************************************************)
(* LogIngester._detect_log_type and the file-name hints                    *)
(***************************************************************************)
FirstLines == 5

RECURSIVE DetectFrom(_, _)
DetectFrom(file, i) ==
    IF i > Len(file) \/ i > FirstLines THEN "syslog"
    ELSE IF file[i].blank THEN DetectFrom(file, i + 1)
    ELSE IF AccessParser_parse(file[i]) # None THEN "access"
    ELSE IF AuthParser_parse(file[i]) # None THEN "auth"
    ELSE IF SyslogParser_parse(file[i]) # None THEN "syslog"
    ELSE DetectFrom(file, i + 1)

_detect_log_type(file) == DetectFrom(file, 1)

\* the log_type that ingest_file starts its loop with
InitialLogType(arg, hint, file) ==
    IF arg # "" THEN arg
    ELSE IF hint # "none" THEN hint
    ELSE _detect_log_type(file)

\* the parser chosen for one line, and the log_type after it
ParseLine(log_type, line) ==
    IF log_type = "syslog"
    THEN [parsed |-> SyslogParser_parse(line), log_type |-> log_type]
    ELSE IF log_type = "access"
    THEN [parsed |-> AccessParser_parse(line), log_type |-> log_type]
    ELSE IF log_type = "auth"
    THEN [parsed |-> AuthParser_parse(line), log_type |-> log_type]
    ELSE IF SyslogParser_parse(line) # None
    THEN [parsed |-> SyslogParser_parse(line), log_type |-> "syslog"]
    ELSE IF AccessParser_parse(line) # None
    THEN [parsed |-> AccessParser_parse(line), log_type |-> "access"]
    ELSE IF AuthParser_parse(line) # None
    THEN [parsed |-> AuthParser_parse(line), log_type |-> "auth"]
    ELSE [parsed |-> None, log_type |-> log_type]

(***************************************************************************)
(* LogIngester.ingest_file, one loop iteration per step                    *)
(***************************************************************************)
batch_size == 100

\* a fresh process: no ingestion running, an empty database, no database
\* file, the application in its menu
Init ==
    /\ efile = <<>>
    /\ epos = 1
    /\ epc = "idle"
    /\ ecount = 0
    /\ elogs = <<>>
    /\ ecommitted = 0
    /\ ifile = <<>>
    /\ iarg = ""
    /\ ihint = "none"
    /\ ilog_type = ""
    /\ ipos = 1
    /\ ipc = "idle"
    /\ icount = 0
    /\ ierrors = 0
    /\ ibatch = <<>>
    /\ logs = <<>>
    /\ committed = 0
    /\ qquery = <<>>
    /\ qwhere = None
    /\ qresults = None
    /\ pline = <<>>
    /\ ptype = <<>>
    /\ pparsed = None
    /\ dcolumns = {}
    /\ drows = <<>>
    /\ dpending = <<>>
    /\ dconn = "closed"
    /\ dnext = 1
    /\ umode = "menu"
    /\ umenu_selection = 0
    /\ uingest_buffer = <<>>
    /\ uinput = [value |-> <<>>, cursor |-> 0]
    /\ utable = [rows |-> <<>>, scroll |-> 0]
    /\ udashboard_view = [sections |-> <<>>, section_names |-> <<>>, active |-> 0,
                         rows |-> <<>>, scroll |-> 0]
    /\ urunning = TRUE

\* ingest_file(filepath, log_type) is called on an existing file
IngestOpen ==
    /\ ipc = "idle"
    /\ \E f \in IFiles, a \in {"", "syslog", "access", "auth", "other"},
          h \in {"access", "auth", "syslog", "none"} :
          /\ a # "" => h = "none"
          /\ ifile' = f
          /\ iarg' = a
          /\ ihint' = h
          /\ ilog_type' = InitialLogType(a, h, f)
    /\ ipos' = 1
    /\ icount' = 0
    /\ ierrors' = 0
    /\ ibatch' = <<>>
    /\ ipc' = "loop"
    /\ UNCHANGED <<svars, evars, qvars, pvars, dvars, uvars>>

\* for line in f: a blank line is skipped
IngestSkipBlank ==
    /\ ipc = "loop"
    /\ ipos <= Len(ifile)
    /\ ifile[ipos].blank
    /\ ipos' = ipos + 1
    /\ UNCHANGED <<ifile, iarg, ihint, ilog_type, ipc, icount, ierrors, ibatch>>
    /\ UNCHANGED <<svars, evars, qvars, pvars, dvars, uvars>>

\* for line in f: the line is parsed, appended to the batch and counted;
\* a full batch is added to the index and committed
IngestParsedLine ==
    /\ ipc = "loop"
    /\ ipos <= Len(ifile)
    /\ ~ifile[ipos].blank
    /\ LET r == ParseLine(ilog_type, ifile[ipos])
           b == Append(ibatch, [lt |-> r.log_type, pd |-> r.parsed,
                                rl |-> ifile[ipos]])
       IN /\ r.parsed # None
          /\ ilog_type' = r.log_type
          /\ icount' = icount + 1
          /\ IF Len(b) >= batch_size
             THEN /\ logs' = AddBatch(logs, b)
                  /\ committed' = Len(logs')
                  /\ ibatch' = <<>>
             ELSE /\ ibatch' = b
                  /\ UNCHANGED svars
    /\ ipos' = ipos + 1
    /\ UNCHANGED <<ifile, iarg, ihint, ipc, ierrors>>
    /\ UNCHANGED <<evars, qvars, pvars, dvars, uvars>>

\* for line in f: no parser result, the line is counted as an error
IngestErrorLine ==
    /\ ipc = "loop"
    /\ ipos <= Len(ifile)
    /\ ~ifile[ipos].blank
    /\ ParseLine(ilog_type, ifile[ipos]).parsed = None
    /\ ierrors' = ierrors + 1
    /\ ipos' = ipos + 1
    /\ UNCHANGED <<ifile, iarg, ihint, ilog_type, ipc, icount, ibatch>>
    /\ UNCHANGED <<svars, evars, qvars, pvars, dvars, uvars>>

\* reading the file raises: except Exception returns "Error reading file"
IngestReadError ==
    /\ ipc = "loop"
    /\ ipos <= Len(ifile)
    /\ ipc' = "error"
    /\ UNCHANGED <<ifile, iarg, ihint, ilog_type, ipos, icount, ierrors, ibatch>>
    /\ UNCHANGED <<svars, evars, qvars, pvars, dvars, uvars>>

\* end of file: the remaining batch is added and committed, the summary
\* "Ingested {count} events ... ({log_type} format) ({errors} errors)" returned
IngestFinish ==
    /\ ipc = "loop"
    /\ ipos > Len(ifile)
    /\ IF ibatch # <<>>
       THEN /\ logs' = AddBatch(logs, ibatch)
            /\ committed' = Len(logs')
       ELSE UNCHANGED svars
    /\ ipc' = "done"
    /\ UNCHANGED <<ifile, iarg, ihint, ilog_type, ipos, icount, ierrors, ibatch>>
    /\ UNCHANGED <<evars, qvars, pvars, dvars, uvars>>

INext ==
    \/ IngestOpen
    \/ IngestSkipBlank
    \/ IngestParsedLine
    \/ IngestErrorLine
    \/ IngestReadError
    \/ IngestFinish

SpecIngest == Init /\ [][INext]_vars

(***************************************************************************)
(* Text.  A Python or SQL string is the sequence of its characters.        *)
(***************************************************************************)
UpperCase == <<"A", "B", "C", "D", "E", "F", "G", "H", "I", "J", "K", "L", "M",
               "N", "O", "P", "Q", "R", "S", "T", "U", "V", "W", "X", "Y", "Z">>
LowerCase == <<"a", "b", "c", "d", "e", "f", "g", "h", "i", "j", "k", "l", "m",
               "n", "o", "p", "q", "r", "s", "t", "u", "v", "w", "x", "y", "z">>
Digits    == <<"0", "1", "2", "3", "4", "5", "6", "7", "8", "9">>

Range(seq) == {seq[i] : i \in 1..Len(seq)}

\* the member of a set of one value: Only({F(x) : x \in {e}}) is F(e), with e
\* evaluated once
Only(S) == CHOOSE x \in S : TRUE
IndexOf(seq, c) == CHOOSE i \in 1..Len(seq) : seq[i] = c

IsUpper(c) == c \in Range(UpperCase)
IsLower(c) == c \in Range(LowerCase)
IsDigit(c) == c \in Range(Digits)
IsAlpha(c) == IsUpper(c) \/ IsLower(c)
IsWord(c)  == IsAlpha(c) \/ IsDigit(c) \/ c = "_"       \* \w
DigitVal(c) == IndexOf(Digits, c) - 1

\* str.lower() and SQLite LOWER() on one ASCII character
LowerChar(c) == IF IsUpper(c) THEN LowerCase[IndexOf(UpperCase, c)] ELSE c
Lower(str) == [i \in 1..Len(str) |-> LowerChar(str[i])]

\* the characters in ASCII order (the order of SQLite's BINARY collation)
Ascii ==
    <<" ", "\"", "%", "'", "(", ")", "*", "+", ",", "-", ".", "/">> \o Digits
      \o <<":", "<", "=", ">", "@">> \o UpperCase \o <<"[", "]", "_">>
      \o LowerCase \o <<"|">>
Ord(c) == IndexOf(Ascii, c)

StartsWith(str, prefix) ==
    /\ Len(str) >= Len(prefix)
    /\ SubSeq(str, 1, Len(prefix)) = prefix
EndsWith(str, suffix) ==
    /\ Len(str) >= Len(suffix)
    /\ SubSeq(str, Len(str) - Len(suffix) + 1, Len(str)) = suffix

\* text is a (contiguous) substring of str
HasSubstring(str, text) ==
    \E i \in 0..(Len(str) - Len(text)) : SubSeq(str, i + 1, i + Len(text)) = text

\* str.strip(chars): drop leading and trailing characters that are in chars
RECURSIVE LStrip(_, _)
LStrip(str, chars) ==
    IF str # <<>> /\ str[1] \in chars THEN LStrip(Tail(str), chars) ELSE str
RECURSIVE RStrip(_, _)
RStrip(str, chars) ==
    IF str # <<>> /\ str[Len(str)] \in chars
    THEN RStrip(SubSeq(str, 1, Len(str) - 1), chars) ELSE str
Strip(str, chars) == RStrip(LStrip(str, chars), chars)
Whitespace == {" "}

\* str.split(sep, 1) for a separator that occurs in str
SplitOnce(str, sep) ==
    LET i == CHOOSE k \in 1..Len(str) :
                 str[k] = sep /\ \A j \in 1..(k - 1) : str[j] # sep
    IN <<SubSeq(str, 1, i - 1), SubSeq(str, i + 1, Len(str))>>

\* sep.join(strs)
RECURSIVE Join(_, _)
Join(strs, sep) ==
    IF strs = <<>> THEN <<>>
    ELSE IF Len(strs) = 1 THEN strs[1]
    ELSE strs[1] \o sep \o Join(Tail(strs), sep)

\* int(digits) for a short string of decimal digits
RECURSIVE ToInt(_)
ToInt(digits) ==
    IF digits = <<>> THEN 0
    ELSE 10 * ToInt(SubSeq(digits, 1, Len(digits) - 1))
           + DigitVal(digits[Len(digits)])

\* the length of the longest prefix of str made of decimal digits
RECURSIVE DigitPrefix(_)
DigitPrefix(str) ==
    IF str # <<>> /\ IsDigit(str[1]) THEN 1 + DigitPrefix(Tail(str)) ELSE 0

\* the decimal digits of n
RECURSIVE ToDigits(_)
ToDigits(n) ==
    IF n < 10 THEN <<Digits[n + 1]>>
    ELSE ToDigits(n \div 10) \o <<Digits[(n % 10) + 1]>>

(***************************************************************************)
(* QueryParser._tokenize                                                   *)
(***************************************************************************)
RECURSIVE Tokenize(_, _, _, _, _)
Tokenize(text, i, current, quote_char, tokens) ==
    IF i > Len(text)
    THEN IF current # <<>> THEN Append(tokens, current) ELSE tokens
    ELSE LET char == text[i] IN
         IF char \in {"\"", "'"} /\ quote_char = ""
         THEN Tokenize(text, i + 1, Append(current, char), char, tokens)
         ELSE IF char = quote_char
         THEN Tokenize(text, i + 1, <<>>, "",
                       Append(tokens, Append(current, char)))
         ELSE IF char = " " /\ quote_char = ""
         THEN Tokenize(text, i + 1, <<>>, "",
                       IF current # <<>> THEN Append(tokens, current)
                       ELSE tokens)
         ELSE Tokenize(text, i + 1, Append(current, char), quote_char, tokens)

_tokenize(text) == Tokenize(text, 1, <<>>, "", <<>>)

(***************************************************************************)
(* Dates and times.  The clock of the model covers October 2024 to         *)
(* January 2025: second 0 is 2024-10-01T00:00:00.  A datetime is a record  *)
(* of its date (as text), its second of the day and its microsecond.       *)
(***************************************************************************)
Unsupported == [tag |-> "unsupported"]   \* outside the part modelled here

Str(chars) == [tag |-> "str", s |-> chars]

TwoDigits(n) == <<Digits[(n \div 10) + 1], Digits[(n % 10) + 1]>>
SixDigits(n) ==
    TwoDigits(n \div 10000) \o TwoDigits((n \div 100) % 100) \o TwoDigits(n % 100)

\* the date of day d of the clock (day 0 is 2024-10-01)
DateOfDay(d) ==
    IF d < 31 THEN <<"2", "0", "2", "4", "-", "1", "0", "-">> \o TwoDigits(d + 1)
    ELSE IF d < 61 THEN <<"2", "0", "2", "4", "-", "1", "1", "-">> \o TwoDigits(d - 30)
    ELSE IF d < 92 THEN <<"2", "0", "2", "4", "-", "1", "2", "-">> \o TwoDigits(d - 60)
    ELSE <<"2", "0", "2", "5", "-", "0", "1", "-">> \o TwoDigits(d - 91)

InClock(sec) == sec >= 0 /\ sec < 123 * 86400

\* datetime.utcnow(): 2025-01-31T12:00:00.500000
Now == [sec |-> 122 * 86400 + 12 * 3600, micro |-> 500000]

\* datetime.utcnow() - timedelta(seconds=seconds), for a result on the clock
UtcNowMinus(seconds) ==
    LET t == Now.sec - seconds IN
    [date |-> DateOfDay(t \div 86400), sod |-> t % 86400,
     micro |-> Now.micro]

\* datetime.isoformat()
isoformat(dt) ==
    dt.date \o <<"T">> \o TwoDigits(dt.sod \div 3600) \o <<":">>
      \o TwoDigits((dt.sod \div 60) % 60) \o <<":">> \o TwoDigits(dt.sod % 60)
      \o (IF dt.micro # 0 THEN <<".">> \o SixDigits(dt.micro) ELSE <<>>)

(***************************************************************************)
(* QueryParser._parse_time_filter and _parse_earliest_latest               *)
(***************************************************************************)
TimeUnits == {"m", "h", "d", "w", "M"}

\* the if/elif chain "Convert to seconds"
UnitSeconds(num, unit) ==
    IF unit = "m" THEN num * 60
    ELSE IF unit = "h" THEN num * 3600
    ELSE IF unit = "d" THEN num * 86400
    ELSE IF unit = "w" THEN num * 604800
    ELSE IF unit = "M" THEN num * 2592000
    ELSE -1

\* re.match(r"(\d+)([mhdwM])", str): None, or the groups <<num, unit>>
MatchNumUnit(str) ==
    LET k == DigitPrefix(str) IN
    IF k >= 1 /\ Len(str) > k /\ str[k + 1] \in TimeUnits
    THEN [tag |-> "ok", num |-> SubSeq(str, 1, k), unit |-> str[k + 1]]
    ELSE None

\* "timestamp <op> '<cutoff>'" for the cutoff now - num * unit
CutoffClause(op, m) ==
    IF Len(m.num) > 3 THEN Unsupported
    ELSE LET seconds == UnitSeconds(ToInt(m.num), LowerChar(m.unit)) IN
         IF seconds < 0 THEN None
         ELSE IF ~InClock(Now.sec - seconds) THEN Unsupported
         ELSE Str(<<"t", "i", "m", "e", "s", "t", "a", "m", "p">> \o <<" ">> \o op \o <<" ", "'">>
                    \o isoformat(UtcNowMinus(seconds)) \o <<"'">>)

_parse_time_filter(token) ==
    LET low == Lower(token) IN
    IF ~StartsWith(low, <<"l", "a", "s", "t", "=">>) THEN None
    ELSE LET match == MatchNumUnit(SubSeq(low, 6, Len(low))) IN
         IF match = None THEN None
         ELSE CutoffClause(<<">">>, match)

\* the comparison operator of mode "earliest" / "latest"
ModeOp(mode) == IF mode = "earliest" THEN <<">", "=">> ELSE <<"<", "=">>

\* the epoch branch, for a run of digits after "@" (the local time zone is
\* UTC): the clause; "pass" when fromtimestamp raises ValueError, which the
\* code catches; Raise when it raises OverflowError, which the code does not
EpochClause(mode, digits, fraction) ==
    IF fraction \/ (Len(digits) > 5 /\ digits[1] = "0") THEN Unsupported
    ELSE IF Len(digits) >= 23 THEN Raise
    ELSE IF Len(digits) >= 16 /\ Len(digits) <= 21 THEN [tag |-> "pass"]
    ELSE IF Len(digits) <= 5 /\ ToInt(digits) < 86400
    THEN Str(<<"t", "i", "m", "e", "s", "t", "a", "m", "p">> \o <<" ">> \o ModeOp(mode) \o <<" ", "'">>
               \o isoformat([date |-> <<"1", "9", "7", "0", "-", "0", "1", "-", "0", "1">>, sod |-> ToInt(digits),
                             micro |-> 0]) \o <<"'">>)
    ELSE Unsupported

\* the absolute formats: every one of them starts with a digit or a month
\* name and holds a digit
AbsoluteClause(mode, time_value) ==
    IF time_value = <<>> THEN None
    ELSE IF ~(IsDigit(time_value[1]) \/ IsAlpha(time_value[1])) THEN None
    ELSE IF \A i \in 1..Len(time_value) : ~IsDigit(time_value[i]) THEN None
    ELSE Unsupported

_parse_earliest_latest(token, mode) ==
    LET prefix == IF mode = "earliest" THEN <<"e", "a", "r", "l", "i", "e", "s", "t", "=">> ELSE <<"l", "a", "t", "e", "s", "t", "=">> IN
    IF ~(StartsWith(Lower(token), prefix) /\ Len(token) > Len(prefix))
    THEN None
    ELSE LET time_value ==
                 Strip(SubSeq(token, Len(prefix) + 1, Len(token)), Whitespace)
             low == Lower(time_value)
             rel_match ==
                 IF StartsWith(low, <<"-">>)
                 THEN MatchNumUnit(Tail(low)) ELSE None
             epoch ==
                 IF StartsWith(time_value, <<"@">>)
                      /\ DigitPrefix(Tail(time_value)) >= 1
                 THEN LET k == DigitPrefix(Tail(time_value)) IN
                      EpochClause(mode, SubSeq(time_value, 2, 1 + k),
                          Len(time_value) >= k + 3
                            /\ time_value[k + 2] = "."
                            /\ IsDigit(time_value[k + 3]))
                 ELSE [tag |-> "pass"]
         IN IF rel_match # None THEN CutoffClause(ModeOp(mode), rel_match)
            ELSE IF low = <<"n", "o", "w">>
            THEN Str(<<"t", "i", "m", "e", "s", "t", "a", "m", "p">> \o <<" ">> \o ModeOp(mode) \o <<" ", "'">>
                       \o isoformat(UtcNowMinus(0)) \o <<"'">>)
            ELSE IF epoch.tag # "pass" THEN epoch
            ELSE AbsoluteClause(mode, time_value)

(***************************************************************************)
(* QueryParser._parse_search and QueryParser.parse                         *)
(***************************************************************************)
field_mappings ==
    (<<"h", "o", "s", "t">> :> <<"h", "o", "s", "t">>) @@ (<<"s", "e", "r", "v", "i", "c", "e">> :> <<"s", "e", "r", "v", "i", "c", "e">>)
      @@ (<<"i", "p">> :> <<"i", "p">>) @@ (<<"u", "s", "e", "r">> :> <<"u", "s", "e", "r">>)
      @@ (<<"s", "t", "a", "t", "u", "s">> :> <<"s", "t", "a", "t", "u", "s">>) @@ (<<"m", "e", "t", "h", "o", "d">> :> <<"m", "e", "t", "h", "o", "d">>)
      @@ (<<"e", "n", "d", "p", "o", "i", "n", "t">> :> <<"e", "n", "d", "p", "o", "i", "n", "t">>) @@ (<<"a", "c", "t", "i", "o", "n">> :> <<"a", "c", "t", "i", "o", "n">>)
      @@ (<<"l", "o", "g", "_", "t", "y", "p", "e">> :> <<"l", "o", "g", "_", "t", "y", "p", "e">>) @@ (<<"t", "y", "p", "e">> :> <<"l", "o", "g", "_", "t", "y", "p", "e">>)

\* the fields matched by substring
PartialMatchFields ==
    {<<"s", "e", "r", "v", "i", "c", "e">>, <<"m", "e", "s", "s", "a", "g", "e">>, <<"u", "s", "e", "r">>, <<"h", "o", "s", "t">>, <<"e", "n", "d", "p", "o", "i", "n", "t">>, <<"a", "c", "t", "i", "o", "n">>}

TimePrefixed(token) ==
    \/ StartsWith(token, <<"l", "a", "s", "t", "=">>)
    \/ StartsWith(token, <<"e", "a", "r", "l", "i", "e", "s", "t", "=">>)
    \/ StartsWith(token, <<"l", "a", "t", "e", "s", "t", "=">>)

\* the clause of a field=value token, None for a key that is not mapped
FieldClause(token) ==
    LET kv    == SplitOnce(token, "=")
        value == Strip(kv[2], {"\"", "'"})
        key   == Strip(kv[1], Whitespace)
    IN IF key \notin DOMAIN field_mappings THEN None
       ELSE LET db_field == field_mappings[key] IN
            IF db_field \in PartialMatchFields
            THEN Str(<<"L", "O", "W", "E", "R", "(">> \o db_field \o <<")", " ", "L", "I", "K", "E", " ", "L", "O", "W", "E", "R", "(", "'", "%">> \o value
                       \o <<"%", "'", ")">>)
            ELSE Str(db_field \o <<"=", "'">> \o value \o <<"'">>)

\* "(<field> IS NOT NULL AND LOWER(<field>) LIKE '%<keyword>%')"
KeywordPart(field, keyword) ==
    <<"(">> \o field \o <<" ", "I", "S", " ", "N", "O", "T", " ", "N", "U", "L", "L", " ", "A", "N", "D", " ", "L", "O", "W", "E", "R", "(">> \o field \o <<")", " ", "L", "I", "K", "E", " ", "'", "%">>
      \o keyword \o <<"%", "'", ")">>

KeywordClause(keyword) ==
    Str(<<"(">> \o KeywordPart(<<"r", "a", "w">>, keyword) \o <<" ", "O", "R", " ">>
          \o KeywordPart(<<"m", "e", "s", "s", "a", "g", "e">>, keyword) \o <<" ", "O", "R", " ">>
          \o KeywordPart(<<"s", "e", "r", "v", "i", "c", "e">>, keyword) \o <<" ", "O", "R", " ">>
          \o KeywordPart(<<"u", "s", "e", "r">>, keyword) \o <<" ", "O", "R", " ">>
          \o KeywordPart(<<"a", "c", "t", "i", "o", "n">>, keyword) \o <<" ", "O", "R", " ">>
          \o KeywordPart(<<"e", "n", "d", "p", "o", "i", "n", "t">>, keyword) \o <<" ", "O", "R", " ">>
          \o KeywordPart(<<"h", "o", "s", "t">>, keyword) \o <<")">>)

\* "if time_clause:" appends a clause that is neither None nor empty
IfClause(time_clause) ==
    IF time_clause.tag = "str" /\ time_clause.s = <<>> THEN None
    ELSE time_clause

\* the body of the loop "for token in tokens": the clause the token appends,
\* None when it appends none, Raise when the body raises
TokenClause(token) ==
    IF "=" \in Range(token) /\ ~StartsWith(token, <<"\"">>)
         /\ ~TimePrefixed(token)
    THEN FieldClause(token)
    ELSE IF StartsWith(token, <<"l", "a", "s", "t", "=">>)
    THEN IfClause(_parse_time_filter(token))
    ELSE IF StartsWith(token, <<"e", "a", "r", "l", "i", "e", "s", "t", "=">>)
    THEN IfClause(_parse_earliest_latest(token, "earliest"))
    ELSE IF StartsWith(token, <<"l", "a", "t", "e", "s", "t", "=">>)
    THEN IfClause(_parse_earliest_latest(token, "latest"))
    ELSE IF token = <<"*">> THEN None
    ELSE IF StartsWith(token, <<"\"">>) /\ EndsWith(token, <<"\"">>)
    THEN KeywordClause(Lower(Strip(token, {"\""})))
    ELSE IF ~TimePrefixed(token) /\ "=" \notin Range(token)
    THEN KeywordClause(Lower(token))
    ELSE None

\* clauses after the loop has run over tokens[i..]; Raise or Unsupported as
\* soon as one token gives it
RECURSIVE Clauses(_, _, _)
Clauses(tokens, i, clauses) ==
    IF i > Len(tokens) THEN [tag |-> "ok", clauses |-> clauses]
    ELSE LET c == TokenClause(tokens[i]) IN
         IF c.tag \in {"raise", "unsupported"} THEN c
         ELSE IF c = None THEN Clauses(tokens, i + 1, clauses)
         ELSE Clauses(tokens, i + 1, Append(clauses, c.s))

_parse_search(search) ==
    IF search = <<>> THEN Str(<<"1", "=", "1">>)
    ELSE LET r == Clauses(_tokenize(search), 1, <<>>) IN
         IF r.tag # "ok" THEN r
         ELSE IF r.clauses # <<>> THEN Str(Join(r.clauses, <<" ", "A", "N", "D", " ">>))
         ELSE Str(<<"1", "=", "1">>)

\* (where_clause, stats_command), or Raise
parse(query0) ==
    LET query == Strip(query0, Whitespace) IN
    IF query = <<>> THEN [where_clause |-> Str(<<"1", "=", "1">>), stats_cmd |-> None]
    ELSE IF "|" \in Range(query)
    THEN LET parts == SplitOnce(query, "|") IN
         [where_clause |-> _parse_search(Strip(parts[1], Whitespace)),
          stats_cmd |-> Str(Strip(parts[2], Whitespace))]
    ELSE [where_clause |-> _parse_search(query), stats_cmd |-> None]

(***************************************************************************)
(* The table logs as SQLite sees it: column values are NULL, integers or   *)
(* text.  The WHERE clause of Indexer.query is split into tokens, parsed   *)
(* with the operator precedence of SQLite and evaluated on every row.       *)
(***************************************************************************)
NULL == [tag |-> "null"]
Text(chars) == [tag |-> "text", v |-> chars]
Integer(n) == [tag |-> "int", v |-> n]

\* the columns of CREATE TABLE logs
Columns ==
    (<<"i", "d">> :> "id") @@ (<<"l", "o", "g", "_", "t", "y", "p", "e">> :> "log_type")
      @@ (<<"t", "i", "m", "e", "s", "t", "a", "m", "p">> :> "timestamp") @@ (<<"h", "o", "s", "t">> :> "host")
      @@ (<<"s", "e", "r", "v", "i", "c", "e">> :> "service") @@ (<<"m", "e", "s", "s", "a", "g", "e">> :> "message")
      @@ (<<"i", "p">> :> "ip") @@ (<<"m", "e", "t", "h", "o", "d">> :> "method")
      @@ (<<"e", "n", "d", "p", "o", "i", "n", "t">> :> "endpoint") @@ (<<"s", "t", "a", "t", "u", "s">> :> "status")
      @@ (<<"s", "i", "z", "e">> :> "size") @@ (<<"u", "s", "e", "r">> :> "user")
      @@ (<<"a", "c", "t", "i", "o", "n">> :> "action") @@ (<<"r", "a", "w">> :> "raw")
      @@ (<<"c", "r", "e", "a", "t", "e", "d", "_", "a", "t">> :> "created_at")

\* the members of the set of positions S within lo..hi, in increasing order
RECURSIVE SortRange(_, _, _)
SortRange(S, lo, hi) ==
    IF lo > hi THEN <<>>
    ELSE IF lo = hi THEN (IF lo \in S THEN <<lo>> ELSE <<>>)
    ELSE LET mid == (lo + hi) \div 2 IN
         SortRange(S, lo, mid) \o SortRange(S, mid + 1, hi)

OpChars == {"<", ">", "="}
CompareOps == {<<"=">>, <<"<">>, <<">">>, <<"<", "=">>, <<">", "=">>}
\* keywords and identifiers are case-insensitive: they are kept in lower case
SqlKeywords == {<<"a", "n", "d">>, <<"o", "r">>, <<"l", "i", "k", "e">>, <<"i", "s">>, <<"n", "o", "t">>, <<"n", "u", "l", "l">>}

QuotePositions(sql) == {j \in 1..Len(sql) : sql[j] = "'"}

\* position i lies outside every string literal (for a quote: it opens one)
Outside(sql, quotes, i) == Cardinality({j \in quotes : j < i}) % 2 = 0

\* a token starts at position i
IsStart(sql, quotes, i) ==
    LET c == sql[i] IN
    /\ Outside(sql, quotes, i)
    /\ c \notin Whitespace
    /\ IF c = "'" THEN i = 1 \/ sql[i - 1] # "'"
       ELSE IF IsWord(c) THEN i = 1 \/ ~IsWord(sql[i - 1])
       ELSE IF c \in OpChars THEN i = 1 \/ sql[i - 1] \notin OpChars
       ELSE TRUE

\* the last position of the run of characters of the set cls that starts at s
RunEnd(sql, s, cls) ==
    CHOOSE e \in s..Len(sql) :
        /\ e = Len(sql) \/ sql[e + 1] \notin cls
        /\ \A j \in (s + 1)..e : sql[j] \in cls

WordChars == Range(UpperCase) \cup Range(LowerCase) \cup Range(Digits) \cup {"_"}

\* the token that starts at position s: a string literal (two quotes in a
\* row stand for one quote), a number, a keyword, an identifier, a
\* comparison operator or a parenthesis; "bad" is a literal that is not
\* closed, "other" a token outside the clauses modelled here
TokenAt(sql, quotes, s) ==
    LET c == sql[s] IN
    IF c = "'"
    THEN LET closes == {e \in quotes :
                          /\ e > s
                          /\ ~Outside(sql, quotes, e)
                          /\ e = Len(sql) \/ sql[e + 1] # "'"}
         IN IF closes = {} THEN [k |-> "bad", v |-> <<>>]
            ELSE LET e == CHOOSE x \in closes : \A y \in closes : x <= y
                     keep == {p \in (s + 1)..(e - 1) :
                                sql[p] # "'" \/ ~Outside(sql, quotes, p)}
                     at == SortRange(keep, s + 1, e - 1)
                 IN [k |-> "str", v |-> [n \in 1..Len(at) |-> sql[at[n]]]]
    ELSE IF IsWord(c)
    THEN LET word == SubSeq(sql, s, RunEnd(sql, s, WordChars)) IN
         IF IsDigit(c)
         THEN IF \A n \in 1..Len(word) : IsDigit(word[n])
              THEN [k |-> "int", v |-> word]
              ELSE [k |-> "other", v |-> word]
         ELSE IF Lower(word) \in SqlKeywords
         THEN [k |-> "kw", v |-> Lower(word)]
         ELSE [k |-> "id", v |-> Lower(word)]
    ELSE IF c \in OpChars
    THEN LET op == SubSeq(sql, s, RunEnd(sql, s, OpChars)) IN
         IF op \in CompareOps THEN [k |-> "op", v |-> op]
         ELSE [k |-> "other", v |-> op]
    ELSE IF c = "(" THEN [k |-> "lp", v |-> <<c>>]
    ELSE IF c = ")" THEN [k |-> "rp", v |-> <<c>>]
    ELSE [k |-> "other", v |-> <<c>>]

SqlTokens(sql) ==
    LET quotes == QuotePositions(sql)
        starts == SortRange({i \in 1..Len(sql) : IsStart(sql, quotes, i)},
                            1, Len(sql))
    IN [n \in 1..Len(starts) |-> TokenAt(sql, quotes, starts[n])]

(***************************************************************************)
(* The expression of a WHERE clause.  A parse gives the expression and the *)
(* position of the next token, SqlError for a clause SQLite rejects, or    *)
(* Unsupported.                                                            *)
(***************************************************************************)
SqlError == [tag |-> "error"]

Parsed(ast, i) == [tag |-> "ok", ast |-> ast, i |-> i]

Tok(toks, i) == IF i <= Len(toks) THEN toks[i] ELSE [k |-> "end", v |-> <<>>]

IsKw(t, word) == t.k = "kw" /\ t.v = word

\* a token where none of the parses below can go on
Unexpected(t) ==
    IF t.k = "kw" /\ t.v \in {<<"n", "o", "t">>, <<"n", "u", "l", "l">>, <<"i", "s">>, <<"l", "i", "k", "e">>}
    THEN Unsupported
    ELSE SqlError

\* the levels of precedence, from the loosest: OR, AND, then = LIKE IS, then
\* < <= > >=, then the operands
OrLevel == 1
AndLevel == 2
EqLevel == 3
RelLevel == 4
OperandLevel == 5

\* token t is a binary operator of the level
BinaryAt(level, t) ==
    IF level = OrLevel THEN IsKw(t, <<"o", "r">>)
    ELSE IF level = AndLevel THEN IsKw(t, <<"a", "n", "d">>)
    ELSE IF level = EqLevel
    THEN (t.k = "op" /\ t.v = <<"=">>) \/ IsKw(t, <<"l", "i", "k", "e">>)
    ELSE t.k = "op" /\ t.v # <<"=">>

\* the expression "a t b"
Binary(t, a, b) ==
    IF t.k = "op" THEN [n |-> "cmp", op |-> t.v, a |-> a, b |-> b]
    ELSE IF t.v = <<"l", "i", "k", "e">> THEN [n |-> "like", a |-> a, b |-> b]
    ELSE IF t.v = <<"a", "n", "d">> THEN [n |-> "and", a |-> a, b |-> b]
    ELSE [n |-> "or", a |-> a, b |-> b]

\* the operand that token t starts, for the expression a in its parentheses
Operand(t, toks, i, a) ==
    IF t.k = "str" THEN Parsed([n |-> "lit", v |-> Text(t.v)], i + 1)
    ELSE IF t.k = "int"
    THEN IF Len(t.v) > 5 THEN Unsupported
         ELSE Parsed([n |-> "lit", v |-> Integer(ToInt(t.v))], i + 1)
    ELSE IF t.k = "id" /\ Tok(toks, i + 1).k # "lp"
    THEN IF t.v \in DOMAIN Columns
         THEN Parsed([n |-> "col", name |-> Columns[t.v]], i + 1)
         ELSE Unsupported
    ELSE IF t.k = "id" /\ t.v # <<"l", "o", "w", "e", "r">> THEN Unsupported
    ELSE IF t.k \in {"id", "lp"}
    THEN \* LOWER(<expression>) or (<expression>)
         IF a.tag # "ok" THEN a
         ELSE IF Tok(toks, a.i).k # "rp" THEN Unexpected(Tok(toks, a.i))
         ELSE IF t.k = "id"
         THEN Parsed([n |-> "lower", a |-> a.ast], a.i + 1)
         ELSE Parsed(a.ast, a.i + 1)
    ELSE Unexpected(t)

RECURSIVE ParseExpr(_, _, _), ParseRest(_, _, _)

\* an expression of the level that starts at token i
ParseExpr(level, toks, i) ==
    LET t == Tok(toks, i)
        \* the expression of the next level, or the one in the parentheses
        a == ParseExpr(IF level < OperandLevel THEN level + 1 ELSE OrLevel,
                       toks,
                       IF level < OperandLevel THEN i
                       ELSE IF t.k = "id" THEN i + 2 ELSE i + 1)
    IN IF level = OperandLevel THEN Operand(t, toks, i, a)
       ELSE IF a.tag # "ok" THEN a
       ELSE ParseRest(level, toks, a)

\* the operators of the level that follow the expression left
ParseRest(level, toks, left) ==
    LET t == Tok(toks, left.i)
        b == ParseExpr(level + 1, toks, left.i + 1)
        isnotnull == /\ level = EqLevel
                     /\ IsKw(t, <<"i", "s">>)
                     /\ IsKw(Tok(toks, left.i + 1), <<"n", "o", "t">>)
                     /\ IsKw(Tok(toks, left.i + 2), <<"n", "u", "l", "l">>)
    IN IF BinaryAt(level, t) /\ b.tag # "ok" THEN b
       ELSE IF BinaryAt(level, t) \/ isnotnull
       THEN ParseRest(level, toks,
                      IF isnotnull
                      THEN Parsed([n |-> "notnull", a |-> left.ast], left.i + 3)
                      ELSE Parsed(Binary(t, left.ast, b.ast), b.i))
       ELSE IF level = EqLevel /\ IsKw(t, <<"i", "s">>) THEN Unsupported
       ELSE left

\* the expression of "SELECT * FROM logs WHERE <sql> ORDER BY id DESC LIMIT ?"
ParseWhere(sql) ==
    LET toks == SqlTokens(sql) IN
    IF \E n \in 1..Len(toks) : toks[n].k = "bad" THEN SqlError
    ELSE IF \E n \in 1..Len(toks) : toks[n].k = "other" THEN Unsupported
    ELSE LET e == ParseExpr(OrLevel, toks, 1) IN
         IF e.tag # "ok" THEN e
         ELSE IF e.i <= Len(toks) THEN Unexpected(toks[e.i])
         ELSE e

(***************************************************************************)
(* The value of an expression on a row                                     *)
(***************************************************************************)
\* text a sorts before text b (the comparison of SQLite's BINARY collation)
TextLess(a, b) ==
    \E k \in 1..(Len(b)) :
        /\ \A j \in 1..(k - 1) : j <= Len(a) /\ a[j] = b[j]
        /\ k > Len(a) \/ (k <= Len(a) /\ Ord(a[k]) < Ord(b[k]))

\* str[j..] matches the LIKE pattern[i..]: % is any run of characters, _ any
\* one character, letters match without regard to case
RECURSIVE LikeFrom(_, _, _, _)
LikeFrom(pattern, i, str, j) ==
    IF i > Len(pattern) THEN j > Len(str)
    ELSE IF pattern[i] = "%"
    THEN \E k \in j..(Len(str) + 1) : LikeFrom(pattern, i + 1, str, k)
    ELSE /\ j <= Len(str)
         /\ pattern[i] = "_" \/ LowerChar(pattern[i]) = LowerChar(str[j])
         /\ LikeFrom(pattern, i + 1, str, j + 1)

Bool(b) == Integer(IF b THEN 1 ELSE 0)

Compare(op, a, b) ==
    IF a = Unsupported \/ b = Unsupported THEN Unsupported
    ELSE IF a = NULL \/ b = NULL THEN NULL
    ELSE IF a.tag # b.tag THEN Unsupported
    ELSE LET less    == IF a.tag = "int" THEN a.v < b.v ELSE TextLess(a.v, b.v)
             greater == IF a.tag = "int" THEN a.v > b.v ELSE TextLess(b.v, a.v)
         IN Bool(IF op = <<"=">> THEN a.v = b.v
                 ELSE IF op = <<"<">> THEN less
                 ELSE IF op = <<">">> THEN greater
                 ELSE IF op = <<"<", "=">> THEN ~greater
                 ELSE ~less)

\* a value as a condition: "T", "F", "N" (NULL) or "U" (unsupported); a text
\* counts as the number it starts with
Truth(v) ==
    IF v = Unsupported THEN "U"
    ELSE IF v = NULL THEN "N"
    ELSE IF v.tag = "int" THEN (IF v.v # 0 THEN "T" ELSE "F")
    ELSE IF v.v = <<>> \/ IsAlpha(v.v[1]) THEN "F"
    ELSE IF ~IsDigit(v.v[1]) THEN "U"
    ELSE LET k == DigitPrefix(v.v) IN
         IF k > 5 \/ (Len(v.v) > k /\ v.v[k + 1] \in {".", "e", "E"})
         THEN "U"
         ELSE IF ToInt(SubSeq(v.v, 1, k)) # 0 THEN "T" ELSE "F"

And3(x, y) ==
    IF x = "U" \/ y = "U" THEN Unsupported
    ELSE IF x = "F" \/ y = "F" THEN Bool(FALSE)
    ELSE IF x = "N" \/ y = "N" THEN NULL
    ELSE Bool(TRUE)

Or3(x, y) ==
    IF x = "U" \/ y = "U" THEN Unsupported
    ELSE IF x = "T" \/ y = "T" THEN Bool(TRUE)
    ELSE IF x = "N" \/ y = "N" THEN NULL
    ELSE Bool(FALSE)

\* the value of expression e, whose operands have the values a and b
EvalNode(e, a, b, row) ==
    IF e.n = "lit" THEN e.v
    ELSE IF e.n = "col" THEN row[e.name]
    ELSE IF e.n = "lower"
    THEN IF a = NULL THEN NULL
         ELSE IF a.tag = "text" THEN Text(Lower(a.v))
         ELSE Unsupported
    ELSE IF e.n = "notnull"
    THEN IF a = Unsupported THEN Unsupported ELSE Bool(a # NULL)
    ELSE IF e.n = "cmp" THEN Compare(e.op, a, b)
    ELSE IF e.n = "like"
    THEN IF a = Unsupported \/ b = Unsupported THEN Unsupported
         ELSE IF a = NULL \/ b = NULL THEN NULL
         ELSE IF a.tag # "text" \/ b.tag # "text" THEN Unsupported
         ELSE Bool(LikeFrom(b.v, 1, a.v, 1))
    ELSE IF e.n = "and" THEN And3(Truth(a), Truth(b))
    ELSE Or3(Truth(a), Truth(b))

RECURSIVE Eval(_, _)
Eval(e, row) ==
    EvalNode(e,
             IF "a" \in DOMAIN e THEN Eval(e.a, row) ELSE NULL,
             IF "b" \in DOMAIN e THEN Eval(e.b, row) ELSE NULL,
             row)

(***************************************************************************)
(* Indexer.query and QueryEngine.search                                    *)
(***************************************************************************)
\* the character class of the check of the clause
AllowedChars ==
    WordChars \cup {"<", ">", "=", "(", ")", " ", "'", "\"", ",", ".", ":",
                    "-", "+", "%"}

ErrorRow(message) == [tag |-> "error", error |-> message]

Rows(rows) == [tag |-> "rows", rows |-> rows]

DefaultLimit == 1000

\* the rows of table from the last row to the first (ORDER BY id DESC) that
\* the expression keeps, limit of them at most
Select(table, ast, limit) ==
    LET desc == [n \in 1..Len(table) |-> table[Len(table) + 1 - n]]
        kept == SelectSeq(desc, LAMBDA row : Truth(Eval(ast, row)) = "T")
    IN SubSeq(kept, 1, IF Len(kept) < limit THEN Len(kept) ELSE limit)

query(table, where_clause) ==
    IF ~(where_clause # <<>>
           /\ \A i \in 1..Len(where_clause) : where_clause[i] \in AllowedChars)
    THEN ErrorRow("Invalid WHERE clause")
    ELSE LET e == ParseWhere(where_clause) IN
         IF e = Unsupported THEN Unsupported
         ELSE IF e = SqlError THEN ErrorRow("sqlite3.OperationalError")
         ELSE IF \E n \in 1..Len(table) :
                     Truth(Eval(e.ast, table[n])) = "U"
         THEN Unsupported
         ELSE Rows(Select(table, e.ast, DefaultLimit))

(***************************************************************************)
(* QueryEngine._run_stats and the stats functions.  A result list is the   *)
(* sequence of its dictionaries; a row of the table is the dictionary of   *)
(* its columns, an error row the dictionary of its one key "error".        *)
(***************************************************************************)
\* the list that Indexer.query returned; the message of an error row is one
\* piece of text
AsList(r) ==
    IF r.tag = "rows" THEN r.rows ELSE <<[error |-> Text(<<r.error>>)]>>

\* r.get(field): None for a key that r does not have
RowGet(r, field) ==
    IF field \in DOMAIN Columns /\ Columns[field] \in DOMAIN r
    THEN r[Columns[field]]
    ELSE IF field = <<"e", "r", "r", "o", "r">> /\ "error" \in DOMAIN r THEN r.error
    ELSE NULL

\* "if not x": None, the empty string and 0 are false
Falsy(v) == v = NULL \/ v = Text(<<>>) \/ v = Integer(0)

\* the length of the longest run of characters of cls in str from position i
RunLength(str, i, cls) ==
    Only({k \in 0..(Len(str) + 1 - i) :
            /\ \A j \in i..(i + k - 1) : str[j] \in cls
            /\ i + k > Len(str) \/ str[i + k] \notin cls})

\* text.split(sep)
RECURSIVE Split(_, _)
Split(str, sep) ==
    IF sep \notin Range(str) THEN <<str>>
    ELSE LET parts == SplitOnce(str, sep) IN <<parts[1]>> \o Split(parts[2], sep)

\* re.match(name + r"\((\w+)\)", stats_cmd): group 1, None without a match
MatchCall(stats_cmd, name) ==
    LET i == Len(name) + 2
        k == RunLength(stats_cmd, i, WordChars)
    IN IF /\ StartsWith(stats_cmd, name \o <<"(">>)
          /\ k >= 1
          /\ i + k <= Len(stats_cmd)
          /\ stats_cmd[i + k] = ")"
       THEN Str(SubSeq(stats_cmd, i, i + k - 1))
       ELSE None

\* re.match(r"top\((\d+),\s*(\w+)\)", stats_cmd): groups 1 and 2
MatchTop(stats_cmd) ==
    LET d  == RunLength(stats_cmd, 5, Range(Digits))
        s  == RunLength(stats_cmd, 6 + d, Whitespace)
        i  == 6 + d + s
        k  == RunLength(stats_cmd, i, WordChars)
    IN IF /\ StartsWith(stats_cmd, <<"t", "o", "p", "(">>)
          /\ d >= 1
          /\ 5 + d <= Len(stats_cmd)
          /\ stats_cmd[5 + d] = ","
          /\ k >= 1
          /\ i + k <= Len(stats_cmd)
          /\ stats_cmd[i + k] = ")"
       THEN [tag |-> "match", n |-> SubSeq(stats_cmd, 5, 4 + d),
             field |-> SubSeq(stats_cmd, i, i + k - 1)]
       ELSE None

\* re.match(r"table\(([^)]+)\)", stats_cmd): group 1
MatchTable(stats_cmd) ==
    LET k == RunLength(stats_cmd, 7, Range(Ascii) \ {")"})
    IN IF /\ StartsWith(stats_cmd, <<"t", "a", "b", "l", "e", "(">>)
          /\ k >= 1
          /\ 7 + k <= Len(stats_cmd)
       THEN Str(SubSeq(stats_cmd, 7, 6 + k))
       ELSE None

\* the result of a stats command, and the row of an unknown command
Stats(rows) == [tag |-> "stats", rows |-> rows]
UnknownStats(stats_cmd) ==
    [tag |-> "error", error |-> "Unknown stats command", stats_cmd |-> stats_cmd]

\* key = r.get(field) or "null"
CountKey(r, field) ==
    IF Falsy(RowGet(r, field)) THEN Text(<<"n", "u", "l", "l">>) ELSE RowGet(r, field)

\* sorted(counts.items(), key=lambda x: x[1], reverse=True): the keys of
\* counts by decreasing count, keys of one count in the order in which the
\* dictionary got them
SortedCounts(results, field) ==
    LET key   == [i \in 1..Len(results) |-> CountKey(results[i], field)]
        keys  == Range(key)
        count == [k \in keys |-> Cardinality({i \in 1..Len(results) : key[i] = k})]
        first == [k \in keys |->
                    CHOOSE i \in 1..Len(results) :
                        key[i] = k /\ \A j \in 1..(i - 1) : key[j] # k]
        rank  == [k \in keys |->
                    Cardinality({o \in keys :
                                   \/ count[o] > count[k]
                                   \/ count[o] = count[k] /\ first[o] < first[k]})]
    IN [n \in 1..Cardinality(keys) |->
          Only({[value |-> k, count |-> count[k]] : k \in {o \in keys : rank[o] = n - 1}})]

_count_by(results, field) == SortedCounts(results, field)

\* sorted(...)[:n + 1]: one row too many
TopOneMore(results, n, field) ==
    Only({SubSeq(items, 1, IF n + 1 < Len(items) THEN n + 1 ELSE Len(items)) :
            items \in {SortedCounts(results, field)}})

\* sorted(...)[:n]
_top(results, n, field) ==
    Only({SubSeq(items, 1, IF n < Len(items) THEN n ELSE Len(items)) :
            items \in {SortedCounts(results, field)}})

\* row[field] = r.get(field, "") for every field: a dictionary of the fields
TableRow(r, fields) ==
    [f \in Range(fields) |->
        IF (f \in DOMAIN Columns /\ Columns[f] \in DOMAIN r)
             \/ (f = <<"e", "r", "r", "o", "r">> /\ "error" \in DOMAIN r)
        THEN RowGet(r, f) ELSE Text(<<>>)]

_table(results, fields) ==
    [n \in 1..Len(results) |-> TableRow(results[n], fields)]

\* the days of a month of the proleptic Gregorian calendar
DaysInMonth(year, month) ==
    IF month \in {4, 6, 9, 11} THEN 30
    ELSE IF month # 2 THEN 31
    ELSE IF year % 4 = 0 /\ (year % 100 # 0 \/ year % 400 = 0) THEN 29
    ELSE 28

\* ts begins with YYYY-MM-DD<sep>HH:MM:SS
DateTimeShape(ts, sep) ==
    /\ Len(ts) >= 19
    /\ \A i \in {1, 2, 3, 4, 6, 7, 9, 10, 12, 13, 15, 16, 18, 19} : IsDigit(ts[i])
    /\ ts[5] = "-" /\ ts[8] = "-"
    /\ ts[11] = sep
    /\ ts[14] = ":" /\ ts[17] = ":"

\* the fields of a text of that shape, when they are a date and a time
DateTimeFields(ts) ==
    [year   |-> ToInt(SubSeq(ts, 1, 4)),   month  |-> ToInt(SubSeq(ts, 6, 7)),
     day    |-> ToInt(SubSeq(ts, 9, 10)),  hour   |-> ToInt(SubSeq(ts, 12, 13)),
     minute |-> ToInt(SubSeq(ts, 15, 16)), second |-> ToInt(SubSeq(ts, 18, 19))]

ValidDateTime(f) ==
    /\ f.year >= 1
    /\ f.month \in 1..12
    /\ f.day \in 1..DaysInMonth(f.year, f.month)
    /\ f.hour < 24 /\ f.minute < 60 /\ f.second < 60

\* a UTC offset +HH:MM or -HH:MM
OffsetShape(z) ==
    /\ Len(z) = 6
    /\ z[1] \in {"+", "-"}
    /\ \A i \in {2, 3, 5, 6} : IsDigit(z[i])
    /\ z[4] = ":"
    /\ ToInt(SubSeq(z, 2, 3)) < 24 /\ ToInt(SubSeq(z, 5, 6)) < 60

\* a datetime that was read: its fields
Parsed_dt(f) == [tag |-> "dt", f |-> f]

\* ts_str.replace("Z", "+00:00")
ReplaceZ(ts) == Join([i \in 1..Len(ts) |-> IF ts[i] = "Z" THEN <<"+", "0", "0", ":", "0", "0">> ELSE <<ts[i]>>], <<>>)

\* datetime.fromisoformat(text): None when it raises ValueError.  Texts with
\* the date, the separator T, the time and an optional offset are read; a
\* text that does not begin with the four digits of a year raises.
fromisoformat(text) ==
    IF Len(text) < 4 \/ \E i \in 1..4 : ~IsDigit(text[i]) THEN None
    ELSE IF /\ DateTimeShape(text, "T")
            /\ Len(text) = 19 \/ OffsetShape(SubSeq(text, 20, Len(text)))
    THEN Only({IF ValidDateTime(f) /\ f.year >= 1000 THEN Parsed_dt(f)
               ELSE IF ValidDateTime(f) THEN Unsupported
               ELSE None : f \in {DateTimeFields(text)}})
    ELSE Unsupported

\* datetime.strptime(text, "%Y-%m-%d %H:%M:%S")
strptime(text) ==
    IF Len(text) < 4 \/ \E i \in 1..4 : ~IsDigit(text[i]) THEN None
    ELSE IF DateTimeShape(text, " ") /\ Len(text) = 19
    THEN Only({IF ValidDateTime(f) /\ f.year >= 1000 THEN Parsed_dt(f)
               ELSE IF ValidDateTime(f) THEN Unsupported
               ELSE None : f \in {DateTimeFields(text)}})
    ELSE Unsupported

\* dt.strftime("%Y-%m-%d")
DateText(f) ==
    ToDigits(f.year) \o <<"-">> \o TwoDigits(f.month) \o <<"-">> \o TwoDigits(f.day)

\* the bucket key of a datetime
BucketKey(f, interval) ==
    IF interval \in {<<"1", "m">>, <<"m", "i", "n", "u", "t", "e">>}
    THEN DateText(f) \o <<" ">> \o TwoDigits(f.hour) \o <<":">>
           \o TwoDigits(f.minute) \o <<":", "0", "0">>
    ELSE IF interval = <<"5", "m">>
    THEN DateText(f) \o <<" ">> \o TwoDigits(f.hour) \o <<":">>
           \o TwoDigits((f.minute \div 5) * 5) \o <<":", "0", "0">>
    ELSE IF interval \in {<<"1", "h">>, <<"h", "o", "u", "r">>}
    THEN DateText(f) \o <<" ">> \o TwoDigits(f.hour) \o <<":", "0", "0", ":", "0", "0">>
    ELSE IF interval \in {<<"1", "d">>, <<"d", "a", "y">>}
    THEN DateText(f)
    ELSE DateText(f) \o <<" ">> \o TwoDigits(f.hour) \o <<":", "0", "0", ":", "0", "0">>

\* the body of the loop of _time_bucket for one record: the bucket key that
\* is counted, None when the record is skipped
RecordBucket(r, interval) ==
    Only({IF Falsy(ts) THEN None
          ELSE Only({IF dt.tag = "dt" THEN Str(BucketKey(dt.f, interval)) ELSE dt :
                       dt \in {IF "T" \in Range(ts.v)
                               THEN fromisoformat(ReplaceZ(ts.v))
                               ELSE strptime(ts.v)}}) :
            ts \in {RowGet(r, <<"t", "i", "m", "e", "s", "t", "a", "m", "p">>)}})

\* [{"time": k, "count": v} for k, v in sorted(buckets.items())]
_time_bucket(results, interval) ==
    LET key   == [i \in 1..Len(results) |-> RecordBucket(results[i], interval)]
        keys  == {k \in Range(key) : k.tag = "str"}
        rank  == [k \in keys |-> Cardinality({o \in keys : TextLess(o.s, k.s)})]
    IN IF Unsupported \in Range(key) THEN Unsupported
       ELSE Stats([n \in 1..Cardinality(keys) |->
                     Only({[time  |-> k.s,
                            count |-> Cardinality({i \in 1..Len(results) : key[i] = k})] :
                             k \in {o \in keys : rank[o] = n - 1}})])

\* QueryEngine._run_stats
_run_stats(results, stats_cmd0) ==
    LET stats_cmd == Lower(Strip(stats_cmd0, Whitespace))
        count_by  == MatchCall(stats_cmd, <<"c", "o", "u", "n", "t", "_", "b", "y">>)
        top       == MatchTop(stats_cmd)
        bucket    == MatchCall(stats_cmd, <<"t", "i", "m", "e", "_", "b", "u", "c", "k", "e", "t">>)
        table     == MatchTable(stats_cmd)
    IN IF count_by # None THEN Stats(_count_by(results, count_by.s))
       ELSE IF top # None THEN Stats(_top(results, ToInt(top.n), top.field))
       ELSE IF bucket # None THEN _time_bucket(results, bucket.s)
       ELSE IF table # None
       THEN Stats(_table(results,
                         [i \in 1..Len(Split(table.s, ",")) |->
                            Strip(Split(table.s, ",")[i], Whitespace)]))
       ELSE IF stats_cmd \in {<<"s", "t", "a", "t", "s", " ", "c", "o", "u", "n", "t">>, <<"c", "o", "u", "n", "t">>}
       THEN Stats(<<[count |-> Len(results)]>>)
       ELSE UnknownStats(stats_cmd)

\* the list that search returns: the rows, or the one row {"error": ...}
search(table, q) ==
    Only({IF p.where_clause = Unsupported THEN Unsupported
          ELSE IF p.where_clause = Raise THEN ErrorRow("OverflowError")
          ELSE Only({IF results = Unsupported THEN Unsupported
                     ELSE IF p.stats_cmd # None /\ p.stats_cmd.s # <<>>
                     THEN _run_stats(AsList(results), p.stats_cmd.s)
                     ELSE results :
                       results \in {query(table, p.where_clause.s)}}) :
            p \in {parse(q)}})

(***************************************************************************)
(* Searching the index: log lines are stored with the fields their parser  *)
(* gave, and queries are run on the table.                                 *)
(***************************************************************************)
MaxRows == 2
MaxN == 2

\* parsed_data.get(key)
Get(parsed_data, key) ==
    IF key \in DOMAIN parsed_data THEN parsed_data[key] ELSE NULL

\* the row that the INSERT of add_log gives the table, with every column
LogRow(id, log_type, parsed_data, raw_line) ==
           [id         |-> Integer(id),
            log_type   |-> Text(log_type),
            timestamp  |-> Get(parsed_data, "timestamp"),
            host       |-> Get(parsed_data, "host"),
            service    |-> Get(parsed_data, "service"),
            message    |-> Get(parsed_data, "message"),
            ip         |-> Get(parsed_data, "ip"),
            method     |-> Get(parsed_data, "method"),
            endpoint   |-> Get(parsed_data, "endpoint"),
            status     |-> Get(parsed_data, "status"),
            size       |-> IF "size" \in DOMAIN parsed_data
                           THEN parsed_data["size"] ELSE Integer(0),
            user       |-> Get(parsed_data, "user"),
            action     |-> Get(parsed_data, "action"),
            raw        |-> Text(raw_line),
            created_at |-> Text(<<"2", "0", "2", "5", "-", "0", "1", "-", "3", "1", " ", "1", "2", ":", "0", "0", ":", "0", "0">>)]

\* table logs after add_log
InsertLog(table, log_type, parsed_data, raw_line) ==
    Append(table, LogRow(Len(table) + 1, log_type, parsed_data, raw_line))

\* an access line and an auth line, with the dictionaries that AccessParser
\* and AuthParser return for them
SampleLogs ==
    {[log_type |-> <<"a", "c", "c", "e", "s", "s">>,
      parsed_data |-> [timestamp |-> Text(<<"2", "0", "2", "5", "-", "0", "1", "-", "2", "0", "T", "0", "0", ":", "0", "0", ":", "0", "0", "+", "0", "0", ":", "0", "0">>),
                       ip |-> Text(<<"1", ".", "1", ".", "1", ".", "1">>), method |-> Text(<<"G", "E", "T">>),
                       endpoint |-> Text(<<"/", "a">>), status |-> Text(<<"2", "0", "0">>),
                       size |-> Integer(5)],
      raw_line |-> <<"1", ".", "1", ".", "1", ".", "1", " ", "-", " ", "-", " ", "[", "2", "0", "/", "J", "a", "n", "/", "2", "0", "2", "5", ":", "0", "0", ":", "0", "0", ":", "0", "0", " ", "+", "0", "0", "0", "0", "]", " ", "\"", "G", "E", "T", " ", "/", "a", " ", "H", "T", "T", "P", "/", "1", ".", "1", "\"", " ", "2", "0", "0", " ", "5">>],
     [log_type |-> <<"a", "u", "t", "h">>,
      parsed_data |-> [timestamp |-> Text(<<"2", "0", "2", "5", "-", "0", "1", "-", "3", "1", "T", "1", "1", ":", "5", "9", ":", "3", "0">>),
                       user |-> Text(<<"b", "o", "b">>),
                       action |-> Text(<<"l", "o", "g", "i", "n", "_", "s", "u", "c", "c", "e", "s", "s">>),
                       ip |-> Text(<<"1", ".", "1", ".", "1", ".", "1">>)],
      raw_line |-> <<"2", "0", "2", "5", "-", "0", "1", "-", "3", "1", "T", "1", "1", ":", "5", "9", ":", "3", "0", " ", "h", " ", "s", "s", "h", "d", "[", "1", "]", ":", " ", "A", "c", "c", "e", "p", "t", "e", "d", " ", "p", "a", "s", "s", "w", "o", "r", "d", " ", "f", "o", "r", " ", "b", "o", "b", " ", "f", "r", "o", "m", " ", "1", ".", "1", ".", "1", ".", "1">>]}

\* a line is ingested: add_log, then commit
StoreLog ==
    /\ qresults = None
    /\ Len(logs) < MaxRows
    /\ \E l \in SampleLogs :
         logs' = InsertLog(logs, l.log_type, l.parsed_data, l.raw_line)
    /\ committed' = Len(logs')
    /\ UNCHANGED <<evars, ivars, qvars, pvars, dvars, uvars>>

\* last=<N><unit>, earliest=-<N><unit> and latest=-<N><unit>
RelativePrefixes == {<<"l", "a", "s", "t", "=">>, <<"e", "a", "r", "l", "i", "e", "s", "t", "=", "-">>, <<"l", "a", "t", "e", "s", "t", "=", "-">>}
RelativeTerm(prefix, N, unit) == prefix \o ToDigits(N) \o <<unit>>
RelativeTerms ==
    {RelativeTerm(prefix, N, unit) :
        prefix \in RelativePrefixes, N \in 1..MaxN, unit \in TimeUnits}

\* field=value on the free-text fields
FreeTextFields == {<<"s", "e", "r", "v", "i", "c", "e">>, <<"u", "s", "e", "r">>, <<"h", "o", "s", "t">>, <<"e", "n", "d", "p", "o", "i", "n", "t">>, <<"a", "c", "t", "i", "o", "n">>}
FreeTextValues == {<<"b", "o">>, <<"B", "O">>, <<"b", "_", "b">>, <<"b", "%", "b">>, <<"/", "a">>, <<"a">>, <<"x", "[">>}
FreeTextTerms == {f \o <<"=">> \o v : f \in FreeTextFields, v \in FreeTextValues}

CategoricalTerms ==
    {<<"s", "t", "a", "t", "u", "s", "=", "2", "0", "0">>, <<"s", "t", "a", "t", "u", "s", "=", "\"", "1", "'", "O", "R", "'", "1", "\"">>, <<"t", "y", "p", "e", "=", "a", "u", "t", "h">>, <<"l", "o", "g", "_", "t", "y", "p", "e", "=", "a", "c", "c", "e", "s", "s">>,
     <<"i", "p", "=", "1", ".", "1", ".", "1", ".", "1">>, <<"m", "e", "t", "h", "o", "d", "=", "G", "E", "T">>}

\* terms that add no clause
LongEpoch == [i \in 1..23 |-> "9"]
NoPredicateTerms ==
    {<<"f", "o", "o", "=", "b", "a", "r">>, <<"m", "e", "s", "s", "a", "g", "e", "=", "b", "o", "b">>, <<"l", "a", "s", "t", "=", "a", "b", "c">>, <<"l", "a", "s", "t", "=">>, <<"l", "a", "s", "t", "=", "5">>,
     <<"e", "a", "r", "l", "i", "e", "s", "t", "=", "z", "z">>, <<"e", "a", "r", "l", "i", "e", "s", "t", "=">>, <<"l", "a", "t", "e", "s", "t", "=", "@">>, <<"e", "a", "r", "l", "i", "e", "s", "t", "=", "-">>,
     <<"e", "a", "r", "l", "i", "e", "s", "t", "=", "@">> \o LongEpoch, <<"l", "a", "t", "e", "s", "t", "=", "@", "9", "9", "9", "9", "9", "9", "9", "9", "9", "9", "9", "9", "9", "9", "9", "9">>, <<"*">>}

\* "p" for the phrases p, and bare keywords
Phrases ==
    {<<"f", "o", "r", " ", "b", "o", "b">>, <<"F", "O", "R", " ", "B", "O", "B">>, <<"G", "E", "T", " ", "/", "a">>, <<"s", "s", "h", "d", "[", "1", "]">>, <<"n", "o", "t", "h", "i", "n", "g", " ", "h", "e", "r", "e">>,
     <<"b", "o", "b">>}
PhraseTerm(p) == <<"\"">> \o p \o <<"\"">>
KeywordTerms == {<<"b", "o", "b">>, <<"B", "O", "B">>, <<"g", "e", "t">>} \cup {PhraseTerm(p) : p \in Phrases}

OtherTimeTerms == {<<"l", "a", "t", "e", "s", "t", "=", "n", "o", "w">>, <<"e", "a", "r", "l", "i", "e", "s", "t", "=", "n", "o", "w">>, <<"e", "a", "r", "l", "i", "e", "s", "t", "=", "@", "6", "0">>}

Terms ==
    RelativeTerms \cup FreeTextTerms \cup CategoricalTerms
      \cup NoPredicateTerms \cup KeywordTerms \cup OtherTimeTerms

\* the terms that are also put side by side
PairTerms ==
    NoPredicateTerms
      \cup {<<"u", "s", "e", "r", "=", "b", "o">>, <<"e", "n", "d", "p", "o", "i", "n", "t", "=", "/", "a">>, <<"s", "t", "a", "t", "u", "s", "=", "2", "0", "0">>, <<"s", "t", "a", "t", "u", "s", "=", "\"", "1", "'", "O", "R", "'", "1", "\"">>,
            <<"l", "a", "s", "t", "=", "1", "M">>, <<"l", "a", "t", "e", "s", "t", "=", "-", "1", "w">>, <<"b", "o", "b">>, <<"\"", "f", "o", "r", " ", "b", "o", "b", "\"">>, <<"\"", "G", "E", "T", " ", "/", "a", "\"">>}

Queries == Terms \cup {a \o <<" ">> \o b : a, b \in PairTerms}

\* QueryEngine.search(query).  A search reads the table and leaves it as it
\* is: a behaviour stores its lines and then runs one search.
Search ==
    /\ qresults = None
    /\ \E q \in Queries :
         /\ qquery' = q
         /\ qwhere' = parse(q).where_clause
         /\ qresults' = search(logs, q)
    /\ UNCHANGED <<evars, ivars, svars, pvars, dvars, uvars>>

QNext == StoreLog \/ Search

SpecQuery == Init /\ [][QNext]_vars

\* every query and every table of the searches lies in the part of SQLite
\* and of the calendar that is modelled
SearchIsModelled == qresults # Unsupported /\ qwhere # Unsupported

(***************************************************************************)
(* Searching with a stats command: records are stored one by one or from a *)
(* long file, and a query with or without a stats command is run.          *)
(***************************************************************************)
MaxRecords == 3

\* three auth lines and two access lines, with the dictionaries that
\* AuthParser and AccessParser return for them
StatsLogs ==
    {[log_type |-> <<"a", "u", "t", "h">>,
      parsed_data |-> [timestamp |-> Text(<<"2", "0", "2", "5", "-", "0", "1", "-", "0", "1", "T", "1", "0", ":", "0", "5", ":", "0", "0">>), user |-> Text(<<"b", "o", "b">>), action |-> Text(<<"l", "o", "g", "i", "n", "_", "s", "u", "c", "c", "e", "s", "s">>)],
      raw_line |-> <<"2", "0", "2", "5", "-", "0", "1", "-", "0", "1", "T", "1", "0", ":", "0", "5", ":", "0", "0", " ", "A", "c", "c", "e", "p", "t", "e", "d", " ", "p", "a", "s", "s", "w", "o", "r", "d", " ", "f", "o", "r", " ", "b", "o", "b">>],
     [log_type |-> <<"a", "u", "t", "h">>,
      parsed_data |-> [timestamp |-> Text(<<"2", "0", "2", "5", "-", "0", "1", "-", "0", "1", "T", "1", "0", ":", "5", "5", ":", "0", "0">>), user |-> Text(<<"a", "m", "y">>), action |-> Text(<<"l", "o", "g", "i", "n", "_", "f", "a", "i", "l", "u", "r", "e">>)],
      raw_line |-> <<"2", "0", "2", "5", "-", "0", "1", "-", "0", "1", "T", "1", "0", ":", "5", "5", ":", "0", "0", " ", "F", "a", "i", "l", "e", "d", " ", "p", "a", "s", "s", "w", "o", "r", "d", " ", "f", "o", "r", " ", "a", "m", "y">>],
     [log_type |-> <<"a", "u", "t", "h">>,
      parsed_data |-> [timestamp |-> Text(<<"2", "0", "2", "5", "-", "0", "1", "-", "0", "1", "T", "1", "1", ":", "0", "0", ":", "0", "1">>), user |-> Text(<<"b", "o", "b">>), action |-> Text(<<"l", "o", "g", "i", "n", "_", "s", "u", "c", "c", "e", "s", "s">>)],
      raw_line |-> <<"2", "0", "2", "5", "-", "0", "1", "-", "0", "1", "T", "1", "1", ":", "0", "0", ":", "0", "1", " ", "A", "c", "c", "e", "p", "t", "e", "d", " ", "p", "a", "s", "s", "w", "o", "r", "d", " ", "f", "o", "r", " ", "b", "o", "b">>],
     [log_type |-> <<"a", "c", "c", "e", "s", "s">>,
      parsed_data |-> [timestamp |-> Text(<<"2", "0", "2", "5", "-", "0", "1", "-", "0", "1", "T", "1", "0", ":", "3", "0", ":", "0", "0", "+", "0", "0", ":", "0", "0">>), ip |-> Text(<<"1", ".", "1", ".", "1", ".", "1">>), method |-> Text(<<"G", "E", "T">>), endpoint |-> Text(<<"/", "a">>), status |-> Text(<<"2", "0", "0">>), size |-> Integer(5)],
      raw_line |-> <<"1", ".", "1", ".", "1", ".", "1", " ", "-", " ", "-", " ", "[", "0", "1", "/", "J", "a", "n", "/", "2", "0", "2", "5", ":", "1", "0", ":", "3", "0", ":", "0", "0", " ", "+", "0", "0", "0", "0", "]", " ", "\"", "G", "E", "T", " ", "/", "a", " ", "H", "T", "T", "P", "/", "1", ".", "1", "\"", " ", "2", "0", "0", " ", "5">>],
     [log_type |-> <<"a", "c", "c", "e", "s", "s">>,
      parsed_data |-> [timestamp |-> Text(<<"u", "n", "k", "n", "o", "w", "n">>), ip |-> Text(<<"1", ".", "1", ".", "1", ".", "1">>), method |-> Text(<<"G", "E", "T">>), endpoint |-> Text(<<"/", "b">>), status |-> Text(<<"2", "0", "0">>), size |-> Integer(0)],
      raw_line |-> <<"1", ".", "1", ".", "1", ".", "1", " ", "[", "u", "n", "k", "n", "o", "w", "n", "]", " ", "\"", "G", "E", "T", " ", "/", "b", "\"", " ", "2", "0", "0">>]}

\* a line is ingested: add_log, then commit
StoreRecord ==
    /\ qresults = None
    /\ Len(logs) < MaxRecords
    /\ \E l \in StatsLogs :
         logs' = InsertLog(logs, l.log_type, l.parsed_data, l.raw_line)
    /\ committed' = Len(logs')
    /\ UNCHANGED <<evars, ivars, qvars, pvars, dvars, uvars>>

\* a file of DefaultLimit + 1 copies of one line is ingested into the empty
\* table: LogIngester.ingest_file stores every line and commits
BulkLines == DefaultLimit + 1

LongFileLogs ==
    {l \in StatsLogs :
        l.raw_line \in {<<"2", "0", "2", "5", "-", "0", "1", "-", "0", "1", "T", "1", "0", ":", "0", "5", ":", "0", "0", " ", "A", "c", "c", "e", "p", "t", "e", "d", " ", "p", "a", "s", "s", "w", "o", "r", "d", " ", "f", "o", "r", " ", "b", "o", "b">>,
                        <<"1", ".", "1", ".", "1", ".", "1", " ", "[", "u", "n", "k", "n", "o", "w", "n", "]", " ", "\"", "G", "E", "T", " ", "/", "b", "\"", " ", "2", "0", "0">>}}

IngestLongFile ==
    /\ qresults = None
    /\ logs = <<>>
    /\ \E l \in LongFileLogs :
         logs' = [n \in 1..BulkLines |->
                    LogRow(n, l.log_type, l.parsed_data, l.raw_line)]
    /\ committed' = Len(logs')
    /\ UNCHANGED <<evars, ivars, qvars, pvars, dvars, uvars>>

\* the queries: a term list, alone or piped into a stats command
MaxTop == 2

StatsFields == {<<"u", "s", "e", "r">>, <<"s", "i", "z", "e">>, <<"n", "o", "f", "i", "e", "l", "d">>}
CountByCommand(field) == <<"c", "o", "u", "n", "t", "_", "b", "y", "(">> \o field \o <<")">>
TopCommand(N, field) == <<"t", "o", "p", "(">> \o ToDigits(N) \o <<",", " ">> \o field \o <<")">>
CountCommands == {<<"c", "o", "u", "n", "t">>, <<"s", "t", "a", "t", "s", " ", "c", "o", "u", "n", "t">>, <<"C", "O", "U", "N", "T">>}
Intervals ==
    {<<"1", "m">>, <<"m", "i", "n", "u", "t", "e">>, <<"5", "m">>, <<"1", "h">>, <<"h", "o", "u", "r">>, <<"1", "d">>, <<"d", "a", "y">>, <<"2", "h">>, <<"w", "e", "e", "k">>, <<"1", ".", "5", "h">>}
WordIntervals == {i \in Intervals : \A n \in 1..Len(i) : IsWord(i[n])}
BucketCommand(interval) == <<"t", "i", "m", "e", "_", "b", "u", "c", "k", "e", "t", "(">> \o interval \o <<")">>
FieldLists == {<<<<"u", "s", "e", "r">>>>, <<<<"u", "s", "e", "r">>, <<"s", "i", "z", "e">>>>, <<<<"n", "o", "f", "i", "e", "l", "d">>>>, <<<<"t", "i", "m", "e", "s", "t", "a", "m", "p">>, <<"u", "s", "e", "r">>>>}
TableCommand(fields) == <<"t", "a", "b", "l", "e", "(">> \o Join(fields, <<",">>) \o <<")">>

\* the commands of the grammar
GrammarCommands ==
    CountCommands
      \cup {CountByCommand(f) : f \in StatsFields}
      \cup {TopCommand(N, f) : N \in 0..MaxTop, f \in StatsFields}
      \cup {BucketCommand(i) : i \in Intervals}
      \cup {TableCommand(fl) : fl \in FieldLists}

\* texts that are no command of the grammar
UnknownCommands ==
    {<<"f", "o", "o">>, <<"c", "o", "u", "n", "t", "s">>, <<"c", "o", "u", "n", "t", " ", "e", "x", "t", "r", "a">>, <<"c", "o", "u", "n", "t", "_", "b", "y", "(", "u", "s", "e", "r", ")", " ", "e", "x", "t", "r", "a">>, <<"t", "o", "p", "(", "1", ",", " ", "u", "s", "e", "r", ")", "x">>,
     <<"c", "o", "u", "n", "t", "_", "b", "y", "(", ")">>, <<"t", "o", "p", "(", "u", "s", "e", "r", ")">>, <<"t", "i", "m", "e", "_", "b", "u", "c", "k", "e", "t", "(", "1", "h", ")", " ", "x">>, <<"t", "a", "b", "l", "e", "(", "u", "s", "e", "r", ")", " ", "x">>, <<"t", "a", "b", "l", "e", "(", ")">>}

Pipe(terms, stats_cmd) == terms \o <<" ", "|", " ">> \o stats_cmd

\* queries without a stats command: term lists, and phrases in double and
\* in single quotes
QuotedPhrases == {<<"f", "a", "i", "l", "e", "d", " ", "p", "a", "s", "s", "w", "o", "r", "d">>, <<"b", "o", "b">>, <<"f", "o", "r", "|", "b", "o", "b">>, <<"f", "o", "r", "|", "c", "o", "u", "n", "t">>}
SingleQuoted(p) == <<"'">> \o p \o <<"'">>
TermLists == {<<"*">>, <<"u", "s", "e", "r", "=", "b", "o", "b">>}
PlainQueries ==
    TermLists \cup {PhraseTerm(p) : p \in QuotedPhrases}
      \cup {SingleQuoted(p) : p \in QuotedPhrases}

\* term lists with a lower time bound, and term lists whose WHERE clause
\* Indexer.query rejects or SQLite cannot run
LowerBoundTerms == {<<"l", "a", "s", "t", "=", "1", "h">>, <<"l", "a", "s", "t", "=", "2", "d">>, <<"e", "a", "r", "l", "i", "e", "s", "t", "=", "-", "1", "h">>, <<"e", "a", "r", "l", "i", "e", "s", "t", "=", "-", "1", "w">>, <<"e", "a", "r", "l", "i", "e", "s", "t", "=", "@", "6", "0">>}
FailingTerms == {<<"u", "s", "e", "r", "=", "x", "[">>, <<"'", "b", "o", "b", "'">>}
FailingCommands ==
    {<<"c", "o", "u", "n", "t">>, CountByCommand(<<"u", "s", "e", "r">>), TopCommand(1, <<"u", "s", "e", "r">>), BucketCommand(<<"1", "h">>), TableCommand(<<<<"u", "s", "e", "r">>>>), <<"f", "o", "o">>}

StatsQueries ==
    PlainQueries
      \cup {Pipe(<<"*">>, c) : c \in GrammarCommands \cup UnknownCommands}
      \cup {Pipe(<<"u", "s", "e", "r", "=", "b", "o", "b">>, c) :
              c \in CountCommands \cup {CountByCommand(<<"u", "s", "e", "r">>), TopCommand(1, <<"u", "s", "e", "r">>)}}
      \cup {Pipe(<<"\"", "f", "a", "i", "l", "e", "d", " ", "p", "a", "s", "s", "w", "o", "r", "d", "\"">>, <<"c", "o", "u", "n", "t">>)}
      \cup LowerBoundTerms
      \cup FailingTerms
      \cup {Pipe(t, c) : t \in FailingTerms, c \in FailingCommands}

\* QueryEngine.search(query) on the records stored so far
StatsSearch ==
    /\ qresults = None
    /\ \E q \in StatsQueries :
         /\ qquery' = q
         /\ qwhere' = parse(q).where_clause
         /\ qresults' = search(logs, q)
    /\ UNCHANGED <<evars, ivars, svars, pvars, dvars, uvars>>

SNext == StoreRecord \/ IngestLongFile \/ StatsSearch

SpecStats == Init /\ [][SNext]_vars

(***************************************************************************)
(* Properties of the legacy engine                                         *)
(***************************************************************************)
\* the non-empty lines among the first n lines of the file
NonEmptyUpTo(n) == {i \in 1..n : efile[i].head # "blank"}

\* a line that matches the JSON or the XML shape probe and whose decoding fails
ShapedButMalformed(line) ==
    /\ is_json(line) \/ is_windows_xml(line)
    /\ line.detail = "malformed"

\* C1: every non-empty line that matches the JSON or XML shape probe but is
\* malformed still yields a record (through the generic fallback) and is
\* stored: once ingest_file has returned, each such line is the raw of a row.
C1_MalformedShapedLineStored ==
    epc = "done" =>
        \A i \in 1..Len(efile) :
            ShapedButMalformed(efile[i]) =>
                \E k \in 1..Len(elogs) : elogs[k].raw = efile[i]

\* C4: no line raises an exception out of ingest_file: the call never ends
\* in a raised exception with lines of the file left unprocessed.
C4_IngestNeverRaises == epc # "raised"

\* C5: at the end of ingest_file, ingested count + error count (an absent
\* error count is 0; the legacy summary has none) equals the number of
\* non-empty lines of the file.
C5_CountPlusErrorsIsNonEmptyLines ==
    epc = "done" => ecount + 0 = Cardinality(NonEmptyUpTo(Len(efile)))

SpecEngine == Init /\ [][ENext]_vars

(***************************************************************************)
(* Properties of LogIngester                                               *)
(***************************************************************************)
\* the formats a line has by itself (section 4.1): a web-access line, or a
\* timestamped line (syslog-style or auth-style)
LineFormats(line) ==
    (IF line.access # "no" THEN {"access"} ELSE {})
      \cup (IF line.ts # "none" THEN {"syslog", "auth"} ELSE {})

\* C2: in a file of mixed formats every parseable line is stored as a record
\* whose log_type is a format of that line itself, whatever the file name,
\* the first lines of the file and the type chosen for earlier lines.
MixedFile(file) ==
    \E i, j \in 1..Len(file) :
        /\ LineFormats(file[i]) # {}
        /\ LineFormats(file[j]) # {}
        /\ LineFormats(file[i]) \cap LineFormats(file[j]) = {}

C2_LogTypeDecidedPerLine ==
    (ipc = "done" /\ MixedFile(ifile)) =>
        \A i \in 1..Len(ifile) :
            (LineFormats(ifile[i]) # {} /\ ifile[i].size # "huge") =>
                \E k \in 1..Len(logs) :
                    /\ logs[k].raw = ifile[i]
                    /\ logs[k].log_type \in LineFormats(ifile[i])

\* C3: when ingestion stops mid-file, the committed records of the file are
\* exactly the full batches: their number is count rounded down to a multiple
\* of batch_size, and nothing of the unfinished batch is in the table.
C3_StoppedIngestionLeavesFullBatches ==
    ipc = "error" =>
        /\ committed = batch_size * (icount \div batch_size)
        /\ Len(logs) = committed

\* LogIngester alone keeps the balance of C5: count + errors is the number
\* of non-empty lines of the file
IngesterCountsBalance ==
    ipc = "done" =>
        icount + ierrors = Cardinality({i \in 1..Len(ifile) : ~ifile[i].blank})

(***************************************************************************)
(* Properties of the search (SpecQuery)                                    *)
(***************************************************************************)
\* the ids of the rows that the result r holds (an error row holds none)
Matched(r) ==
    IF r.tag = "rows" THEN {r.rows[n].id.v : n \in 1..Len(r.rows)} ELSE {}

\* the rows of logs, newest first, whose column holds text with v in it,
\* letter case apart
RowsContaining(column, v) ==
    SelectSeq([n \in 1..Len(logs) |-> logs[Len(logs) + 1 - n]],
              LAMBDA row : /\ row[column].tag = "text"
                           /\ HasSubstring(Lower(row[column].v), Lower(v)))

\* C6: the query f=v on a free-text field f returns exactly the stored rows
\* whose field f contains v as a case-insensitive substring, and never an
\* error row, whatever characters v holds.
C6_FreeTextTermReturnsSubstringMatches ==
    \A f \in FreeTextFields, v \in FreeTextValues :
        qquery = f \o <<"=">> \o v
          => qresults = Rows(RowsContaining(Columns[f], v))

\* C7: term predicates combine with AND: a row is matched by the query "A B"
\* exactly when it is matched by A and by B, and "A B" matches the same rows
\* as "B A".
C7_TermsCombineWithAndAndCommute ==
    \A a, b \in PairTerms :
        qquery = a \o <<" ">> \o b
          => /\ Matched(qresults)
                  = Matched(search(logs, a)) \cap Matched(search(logs, b))
             /\ Matched(qresults)
                  = Matched(search(logs, b \o <<" ">> \o a))

\* C8: a term that contributes no predicate (unknown field, malformed last=,
\* unparseable earliest=/latest=, bare *) changes nothing: the query returns
\* the rows of the query without the term and no error row, and a query of
\* such terms only returns the rows of *.
C8_TermWithoutPredicateIsDropped ==
    /\ \A n \in NoPredicateTerms :
         qquery = n => qresults.tag = "rows" /\ qresults = search(logs, <<"*">>)
    /\ \A n \in NoPredicateTerms, t \in PairTerms :
         (qquery = n \o <<" ">> \o t \/ qquery = t \o <<" ">> \o n)
           => qresults = search(logs, t)

\* the lengths of the units in seconds, as the specification gives them
UnitLength(unit) ==
    IF unit = "m" THEN 60
    ELSE IF unit = "h" THEN 3600
    ELSE IF unit = "d" THEN 86400
    ELSE IF unit = "w" THEN 604800
    ELSE 2592000

\* the time bound of a clause: the text between its quotes
BoundOf(clause) ==
    IF clause.tag # "str" \/ "'" \notin Range(clause.s) THEN <<>>
    ELSE LET first == CHOOSE i \in 1..Len(clause.s) :
                          /\ clause.s[i] = "'"
                          /\ \A j \in 1..(i - 1) : clause.s[j] # "'"
         IN SubSeq(clause.s, first + 1, Len(clause.s) - 1)

\* C9: last=<N><unit> and the relative spec -<N><unit> of earliest=/latest=
\* give the time bound now - N * unit, for the units m, h, d, w and M of 60,
\* 3600, 86400, 604800 and 2592000 seconds; M (months) is not m (minutes).
C9_RelativeBoundIsNowMinusNUnits ==
    \A prefix \in RelativePrefixes, N \in 1..MaxN, unit \in TimeUnits :
        qquery = RelativeTerm(prefix, N, unit)
          => BoundOf(qwhere) = isoformat(UtcNowMinus(N * UnitLength(unit)))

\* C10: the query "p" of a double-quoted phrase p is one free-text term, and
\* it matches every stored row whose raw field contains p, letter case apart,
\* whatever the other fields of the row hold.
C10_QuotedPhraseMatchesRaw ==
    \A p \in Phrases :
        qquery = PhraseTerm(p)
          => /\ _tokenize(qquery) = <<qquery>>
             /\ \A n \in 1..Len(logs) :
                  HasSubstring(Lower(logs[n].raw.v), Lower(p))
                    => logs[n].id.v \in Matched(qresults)

(***************************************************************************)
(* Properties of the search with stats commands (SpecStats)                *)
(***************************************************************************)
\* every query and every table of these searches lies in the part of SQLite
\* and of the timestamps that is modelled
StatsIsModelled == qresults # Unsupported /\ qwhere # Unsupported

\* the phrases without a pipe character
PlainPhrases == {p \in QuotedPhrases : "|" \notin Range(p)}

\* C11: a single-quoted phrase 'p' is one free-text term whose search text is
\* p without its quotes: the query gives the where clause and the result of
\* the double-quoted query "p".
C11_SingleQuotedPhraseIsDoubleQuoted ==
    \A p \in PlainPhrases :
        qquery = SingleQuoted(p)
          => /\ _tokenize(qquery) = <<qquery>>
             /\ qwhere = parse(PhraseTerm(p)).where_clause
             /\ qresults = search(logs, PhraseTerm(p))

\* C12: the stats command is the text after the first | outside every quoted
\* phrase: a | inside a quoted phrase is part of the phrase, which is searched
\* for as text, and starts no stats command; a | after the phrase does.
C12_PipeInsidePhraseIsText ==
    /\ \A p \in QuotedPhrases \ PlainPhrases :
         qquery = PhraseTerm(p)
           => /\ parse(qquery).stats_cmd = None
              /\ qwhere = KeywordClause(Lower(p))
              /\ "stats_cmd" \notin DOMAIN qresults
    /\ qquery = Pipe(PhraseTerm(<<"f", "a", "i", "l", "e", "d", " ", "p", "a", "s", "s", "w", "o", "r", "d">>), <<"c", "o", "u", "n", "t">>)
         => parse(qquery).stats_cmd = Str(<<"c", "o", "u", "n", "t">>)

\* the text of a timestamp written as YYYY-MM-DDTHH:MM:SS, the empty text
\* for any other timestamp
NaiveTime(v) ==
    IF v.tag = "text" /\ Len(v.v) = 19 /\ DateTimeShape(v.v, "T") THEN v.v
    ELSE <<>>

\* time a is earlier than time b, for two times written that way
Earlier(a, b) == a # <<>> /\ b # <<>> /\ a # b /\ TextLess(a, b)

\* C13: the records a query without stats command returns are ordered most
\* recent first by their timestamp: no returned record comes before a record
\* with a later timestamp, in whatever order the records were ingested.
C13_ResultsMostRecentFirst ==
    qresults.tag = "rows" =>
        \A times \in {[n \in 1..Len(qresults.rows) |->
                         NaiveTime(qresults.rows[n].timestamp)]} :
            \A i \in DOMAIN times :
                \A j \in (i + 1)..Len(times) : ~Earlier(times[i], times[j])

\* the stored records that satisfy the term list, however many they are
Satisfying(table, terms) ==
    Select(table, ParseWhere(parse(terms).where_clause.s).ast, Len(table))

\* C14: T | count returns the single row whose count is the number of stored
\* records that satisfy T, also when more than 1000 records satisfy T.
C14_CountIsNumberOfMatchingRecords ==
    \A T \in TermLists, c \in CountCommands :
        qquery = Pipe(T, c)
          => qresults = Stats(<<[count |-> Len(Satisfying(logs, T))]>>)

\* the record set that the stats command of the query gets: the result of
\* the term list alone
Records(terms) == AsList(search(logs, terms))

\* the sum of the counts of stats rows
RECURSIVE SumCounts(_)
SumCounts(rows) ==
    IF rows = <<>> THEN 0 ELSE rows[1].count + SumCounts(Tail(rows))

\* the key of a record's value under count_by: the sentinel "null" for a
\* null value, the value itself otherwise
ValueKey(r, field) ==
    IF RowGet(r, field) = NULL THEN Text(<<"n", "u", "l", "l">>) ELSE RowGet(r, field)

\* C15: count_by(field) on a record set of size N gives rows whose counts sum
\* to N, with exactly one row for each distinct value of the field, null
\* values under the key "null".
C15_CountByCoversEveryValueOnce ==
    \A f \in StatsFields :
        qquery = Pipe(<<"*">>, CountByCommand(f))
          => \A records \in {Records(<<"*">>)} :
               /\ qresults.tag = "stats"
               /\ SumCounts(qresults.rows) = Len(records)
               /\ {qresults.rows[n].value : n \in 1..Len(qresults.rows)}
                    = {ValueKey(records[i], f) : i \in 1..Len(records)}
               /\ \A m, n \in 1..Len(qresults.rows) :
                    qresults.rows[m].value = qresults.rows[n].value => m = n

\* the first record with the key k of count_by
FirstWith(records, field, k) ==
    CHOOSE i \in 1..Len(records) :
        /\ CountKey(records[i], field) = k
        /\ \A j \in 1..(i - 1) : CountKey(records[j], field) # k

\* C16: top(N, field) returns at most N rows, in non-increasing count order,
\* that are the first N rows of count_by(field) on the same records, rows of
\* one count in the order of the first occurrence of their values; every
\* returned count is at least the count of every value left out, and
\* top(0, field) returns no rows.
C16_TopIsPrefixOfCountBy ==
    \A N \in 0..MaxTop, f \in StatsFields :
        qquery = Pipe(<<"*">>, TopCommand(N, f))
          => \A records \in {Records(<<"*">>)},
                all \in {search(logs, Pipe(<<"*">>, CountByCommand(f))).rows},
                top \in {qresults.rows} :
               /\ qresults.tag = "stats"
               /\ Len(top) <= N
               /\ top = SubSeq(all, 1, IF N < Len(all) THEN N ELSE Len(all))
               /\ \A m, n \in 1..Len(top) :
                    m < n =>
                      \/ top[m].count > top[n].count
                      \/ /\ top[m].count = top[n].count
                         /\ FirstWith(records, f, top[m].value)
                              < FirstWith(records, f, top[n].value)
               /\ \A m \in 1..Len(top), n \in (Len(top) + 1)..Len(all) :
                    top[m].count >= all[n].count
               /\ N = 0 => top = <<>>

\* a value is left out by top(1, user) although it is as frequent as the
\* value returned
C16_Witness ==
    /\ qquery = Pipe(<<"*">>, TopCommand(1, <<"u", "s", "e", "r">>))
    /\ qresults.tag = "stats"
    /\ Len(qresults.rows) = 1
    /\ \E i \in 1..Len(logs) :
         /\ CountKey(logs[i], <<"u", "s", "e", "r">>) # qresults.rows[1].value
         /\ Cardinality({j \in 1..Len(logs) :
                           CountKey(logs[j], <<"u", "s", "e", "r">>) = CountKey(logs[i], <<"u", "s", "e", "r">>)})
              = qresults.rows[1].count

\* the timestamp is written as YYYY-MM-DDTHH:MM:SS, with an offset or without
IsoTimestamp(v) ==
    /\ v.tag = "text"
    /\ DateTimeShape(v.v, "T")
    /\ Len(v.v) = 19 \/ OffsetShape(SubSeq(v.v, 20, Len(v.v)))
    /\ ValidDateTime(DateTimeFields(v.v))

\* such a timestamp truncated to the hour, in the same form
HourOf(v) == SubSeq(v.v, 1, 13) \o <<":", "0", "0", ":", "0", "0">>

\* the records of the record set whose timestamp is written that way
Timestamped(records) ==
    {i \in 1..Len(records) : IsoTimestamp(RowGet(records[i], <<"t", "i", "m", "e", "s", "t", "a", "m", "p">>))}

\* C17: time_bucket(1h) gives each record the bucket key that is its
\* timestamp truncated to the hour in the same ISO-8601 form (the records of
\* 2025-01-01T10:05:00 and 2025-01-01T10:55:00 are counted in the one row
\* 2025-01-01T10:00:00), and records of different hours are in different rows.
C17_HourBucketKeyIsTruncatedTimestamp ==
    qquery = Pipe(<<"*">>, BucketCommand(<<"1", "h">>))
      => \A records \in {Records(<<"*">>)} :
           \A hours \in {[i \in Timestamped(records) |->
                            HourOf(RowGet(records[i], <<"t", "i", "m", "e", "s", "t", "a", "m", "p">>))]} :
             /\ qresults.tag = "stats"
             /\ \A i \in DOMAIN hours :
                  hours[i] \in {qresults.rows[n].time : n \in 1..Len(qresults.rows)}
             /\ \A n \in 1..Len(qresults.rows) :
                  qresults.rows[n].count
                    = Cardinality({j \in DOMAIN hours :
                                     hours[j] = qresults.rows[n].time})

\* the intervals that time_bucket knows
KnownIntervals == {<<"1", "m">>, <<"m", "i", "n", "u", "t", "e">>, <<"5", "m">>, <<"1", "h">>, <<"h", "o", "u", "r">>, <<"1", "d">>, <<"d", "a", "y">>}

\* C18: for every record set and interval, time_bucket returns rows with
\* strictly ascending bucket keys whose counts sum to the number of records
\* with a parseable timestamp; records with a null, "unknown" or unparseable
\* timestamp are in no row and give no error row; an interval that is not
\* known behaves as 1h.
C18_TimeBucketRowsAscendAndCoverTimestamps ==
    \A interval \in Intervals :
        qquery = Pipe(<<"*">>, BucketCommand(interval))
          => \A records \in {Records(<<"*">>)} :
               /\ qresults.tag = "stats"
               /\ \A m, n \in 1..Len(qresults.rows) :
                    m < n => TextLess(qresults.rows[m].time, qresults.rows[n].time)
               /\ SumCounts(qresults.rows) = Cardinality(Timestamped(records))
               /\ interval \notin KnownIntervals
                    => qresults = search(logs, Pipe(<<"*">>, BucketCommand(<<"1", "h">>)))

\* C19: table(f1,...,fk) returns one row for each record of the record set,
\* in the order of the records, with exactly the keys f1..fk; a cell is the
\* record's value of the field, and the empty string when the record has no
\* such field or its value is null.
C19_TableProjectsFieldsWithEmptyForMissing ==
    \A fields \in FieldLists :
        qquery = Pipe(<<"*">>, TableCommand(fields))
          => \A records \in {Records(<<"*">>)} :
               /\ qresults.tag = "stats"
               /\ Len(qresults.rows) = Len(records)
               /\ \A n \in 1..Len(qresults.rows) :
                    /\ DOMAIN qresults.rows[n] = Range(fields)
                    /\ \A f \in Range(fields) :
                         qresults.rows[n][f]
                           = IF RowGet(records[n], f) = NULL THEN Text(<<>>)
                             ELSE RowGet(records[n], f)

\* C20: for a stats command text that is none of the five command forms of
\* the grammar, also a valid form followed by more text, search returns
\* exactly one row, with the key error for the unknown command, and raises
\* no exception.
C20_UnknownStatsCommandGivesOneErrorRow ==
    \A c \in UnknownCommands :
        qquery = Pipe(<<"*">>, c) => qresults = UnknownStats(Lower(c))


(***************************************************************************)
(* Properties of LogIngester: the type of a file and the count returned    *)
(***************************************************************************)
\* a timestamped line with none of the auth keywords, and no access line
PlainSyslogLine(line) ==
    ~line.blank /\ line.ts # "none" /\ ~line.authkw /\ line.access = "no"

\* C24: a file of plain syslog lines (timestamped, without Accepted password,
\* Failed password, sudo: or authentication) whose name gives no format hint
\* is classified as syslog, and its records are stored with log_type syslog.
C24_PlainSyslogFileIsSyslog ==
    (/\ ipc # "idle"
     /\ iarg = "" /\ ihint = "none"
     /\ \A i \in 1..Len(ifile) : PlainSyslogLine(ifile[i])) =>
        /\ ilog_type = "syslog"
        /\ \A k \in 1..Len(logs) : logs[k].log_type = "syslog"

\* rows holds, in order, lines of file from position i on
RECURSIVE InFileOrder(_, _, _)
InFileOrder(rows, file, i) ==
    IF rows = <<>> THEN TRUE
    ELSE IF i > Len(file) THEN FALSE
    ELSE IF rows[1].raw = file[i] THEN InFileOrder(Tail(rows), file, i + 1)
    ELSE InFileOrder(rows, file, i + 1)

\* C25: when ingest_file returns "Ingested N events", exactly N records of
\* the file are in the table and committed, in file order: N counts no line
\* whose insert failed.
C25_CountIsNumberOfStoredRecords ==
    ipc = "done" =>
        /\ Len(logs) = icount
        /\ committed = icount
        /\ InFileOrder(logs, ifile, 1)


(***************************************************************************)
(* Properties of the search: errors of the Store, and time bounds          *)
(***************************************************************************)
\* Indexer.query reports an error for the WHERE clause of the last search
StoreReportsError ==
    /\ qwhere.tag = "str"
    /\ query(logs, qwhere.s).tag = "error"

\* C26: when Indexer.query reports an error, search returns an error row,
\* with or without a stats command: the stats stage never counts, groups,
\* buckets or projects the error row of the Store.
C26_StoreErrorIsNotStatsInput ==
    (qresults # None /\ StoreReportsError) => qresults.tag = "error"

\* C27: a query with a lower time bound (last=, earliest=) never returns a
\* record whose timestamp is "unknown" or another text that is no ISO-8601
\* timestamp.
C27_LowerTimeBoundExcludesUnknownTimestamps ==
    (qquery \in LowerBoundTerms /\ qresults.tag = "rows") =>
        \A n \in 1..Len(qresults.rows) :
            IsoTimestamp(qresults.rows[n].timestamp)


(***************************************************************************)
(* The database file coresight.db.  Indexer and the legacy CoreSightEngine *)
(* open the same file by default; one of them has it open at a time.  A    *)
(* row is the line it was made from and the class that inserted it.        *)
(***************************************************************************)
MaxStored == 4     \* lines ingested into the file

\* the columns of table logs as each class creates it
IndexerColumns ==
    {"id", "log_type", "timestamp", "host", "service", "message", "ip",
     "method", "endpoint", "status", "size", "user", "action", "raw",
     "created_at"}
EngineColumns ==
    {"id", "timestamp", "source", "ip", "user", "status", "event", "raw"}

\* the columns that each INSERT names
IndexerInsertColumns == IndexerColumns \ {"id", "created_at"}
EngineInsertColumns == EngineColumns \ {"id"}

\* Indexer._init_schema on a file with these columns and rows: a table
\* without the column log_type is dropped and created again
Indexer_init_schema(columns, rows) ==
    LET table_exists == columns # {}
        old_schema == table_exists /\ "log_type" \notin columns
    IN IF old_schema THEN [columns |-> IndexerColumns, rows |-> <<>>]
       ELSE IF ~table_exists THEN [columns |-> IndexerColumns, rows |-> rows]
       ELSE [columns |-> columns, rows |-> rows]

\* CoreSightEngine._init_schema: CREATE TABLE IF NOT EXISTS
Engine_init_schema(columns, rows) ==
    IF columns = {} THEN [columns |-> EngineColumns, rows |-> rows]
    ELSE [columns |-> columns, rows |-> rows]

\* Indexer(db_path): connect, _init_schema, commit
OpenIndexer ==
    /\ dconn = "closed"
    /\ LET db == Indexer_init_schema(dcolumns, drows) IN
         /\ dcolumns' = db.columns
         /\ drows' = db.rows
    /\ dconn' = "indexer"
    /\ UNCHANGED <<dpending, dnext>>
    /\ UNCHANGED <<evars, ivars, svars, qvars, pvars, uvars>>

\* CoreSightEngine(db_path): connect, _init_schema, commit
OpenEngine ==
    /\ dconn = "closed"
    /\ LET db == Engine_init_schema(dcolumns, drows) IN
         /\ dcolumns' = db.columns
         /\ drows' = db.rows
    /\ dconn' = "engine"
    /\ UNCHANGED <<dpending, dnext>>
    /\ UNCHANGED <<evars, ivars, svars, qvars, pvars, uvars>>

\* Indexer.add_log of the next line: the row is inserted, not yet committed
IndexerAddLog ==
    /\ dconn = "indexer"
    /\ dnext <= MaxStored
    /\ dpending' = IF IndexerInsertColumns \subseteq dcolumns
                   THEN Append(dpending, [line |-> dnext, by |-> "indexer"])
                   ELSE dpending
    /\ dnext' = dnext + 1
    /\ UNCHANGED <<dcolumns, drows, dconn>>
    /\ UNCHANGED <<evars, ivars, svars, qvars, pvars, uvars>>

\* CoreSightEngine._insert_event of the next line; on a table of Indexer the
\* INSERT raises sqlite3.OperationalError (no column named source) and the
\* line is not stored
EngineInsertEvent ==
    /\ dconn = "engine"
    /\ dnext <= MaxStored
    /\ dpending' = IF EngineInsertColumns \subseteq dcolumns
                   THEN Append(dpending, [line |-> dnext, by |-> "engine"])
                   ELSE dpending
    /\ dnext' = dnext + 1
    /\ UNCHANGED <<dcolumns, drows, dconn>>
    /\ UNCHANGED <<evars, ivars, svars, qvars, pvars, uvars>>

\* conn.commit()
CommitStore ==
    /\ dconn # "closed"
    /\ dpending # <<>>
    /\ drows' = drows \o dpending
    /\ dpending' = <<>>
    /\ UNCHANGED <<dcolumns, dconn, dnext>>
    /\ UNCHANGED <<evars, ivars, svars, qvars, pvars, uvars>>

\* conn.close(), or the end of the process: what was not committed is lost
CloseStore ==
    /\ dconn # "closed"
    /\ dconn' = "closed"
    /\ dpending' = <<>>
    /\ UNCHANGED <<dcolumns, drows, dnext>>
    /\ UNCHANGED <<evars, ivars, svars, qvars, pvars, uvars>>

DNext ==
    \/ OpenIndexer
    \/ OpenEngine
    \/ IndexerAddLog
    \/ EngineInsertEvent
    \/ CommitStore
    \/ CloseStore

SpecStore == Init /\ [][DNext]_vars

\* the rows that a query for every record (`*`) returns on the open
\* connection, and on a connection opened now
StarQuery == drows \o dpending

\* C28: opening a store on an existing database file never deletes records:
\* every committed record stays in the table, and so is returned by a `*`
\* query, after every open, ingest, commit, close and re-open step of Indexer
\* and of the legacy CoreSightEngine on the same file.
C28_OpeningNeverDeletesCommittedRecords ==
    [][\A n \in 1..Len(drows) : drows[n] \in Range(StarQuery')]_vars


-----------------------------------------------------------------------------
\* The terminal interface: src/tui/input_box.py, src/tui/table_view.py,
\* src/tui/dashboard_view.py and the key loop of src/main.py.
\*
\* A key is the integer that getch() returns.  The status line
\* (status_msg) and what is drawn are left out: no handler reads them.  The
\* contents of the Store are left out too: what a search or a dashboard
\* shows is a choice among row lists.

KEY_DOWN      == 258
KEY_UP        == 259
KEY_LEFT      == 260
KEY_RIGHT     == 261
KEY_BACKSPACE == 263
DEL   == 127
ENTER == 10
ESC   == 27

\* chr(k) for 32 <= k <= 126; "GRAVE" stands for the character of code 96,
\* which a TLA+ string cannot hold
PrintableAscii ==
    <<" ", "!", "\"", "#", "$", "%", "&", "'", "(", ")", "*", "+",
       ",", "-", ".", "/", "0", "1", "2", "3", "4", "5", "6", "7",
       "8", "9", ":", ";", "<", "=", ">", "?", "@", "A", "B", "C",
       "D", "E", "F", "G", "H", "I", "J", "K", "L", "M", "N", "O",
       "P", "Q", "R", "S", "T", "U", "V", "W", "X", "Y", "Z", "[",
       "\\", "]", "^", "_", "GRAVE", "a", "b", "c", "d", "e", "f", "g",
       "h", "i", "j", "k", "l", "m", "n", "o", "p", "q", "r", "s",
       "t", "u", "v", "w", "x", "y", "z", "{", "|", "}", "~">>
chr(k) == PrintableAscii[k - 31]
ord(c) == IndexOf(PrintableAscii, c) + 31

max(a, b) == IF a >= b THEN a ELSE b
min(a, b) == IF a <= b THEN a ELSE b

\* s[:n] and s[n:] of Python, for any integer n
SliceTo(s, n) ==
    IF n >= 0 THEN SubSeq(s, 1, min(n, Len(s)))
    ELSE SubSeq(s, 1, max(0, Len(s) + n))
SliceFrom(s, n) ==
    IF n >= 0 THEN SubSeq(s, min(n, Len(s)) + 1, Len(s))
    ELSE SubSeq(s, max(0, Len(s) + n) + 1, Len(s))

\* InputBox.__init__ and InputBox.handle_key
InputBox == [value |-> <<>>, cursor |-> 0]
InputBox_handle_key(box, k) ==
    IF k \in {KEY_BACKSPACE, DEL} THEN
        IF box.cursor > 0
        THEN [value  |-> SliceTo(box.value, box.cursor - 1)
                            \o SliceFrom(box.value, box.cursor),
              cursor |-> box.cursor - 1]
        ELSE box
    ELSE IF k = KEY_LEFT THEN [box EXCEPT !.cursor = max(0, box.cursor - 1)]
    ELSE IF k = KEY_RIGHT
    THEN [box EXCEPT !.cursor = min(Len(box.value), box.cursor + 1)]
    ELSE IF 32 <= k /\ k <= 126
    THEN [value  |-> SliceTo(box.value, box.cursor) \o <<chr(k)>>
                        \o SliceFrom(box.value, box.cursor),
          cursor |-> box.cursor + 1]
    ELSE box

\* TableView.__init__, set_rows and handle_key
TableView == [rows |-> <<>>, scroll |-> 0]
TableView_set_rows(view, rows) == [rows |-> rows, scroll |-> 0]
TableView_handle_key(view, k) ==
    IF k = KEY_UP THEN [view EXCEPT !.scroll = max(0, view.scroll - 1)]
    ELSE IF k = KEY_DOWN
    THEN [view EXCEPT !.scroll = min(Len(view.rows) - 1, view.scroll + 1)]
    ELSE view

\* A dict of sections is the sequence of its items, in insertion order:
\* <<[name |-> .., rows |-> ..], ..>> with distinct names.
DictKeys(d) == [i \in 1..Len(d) |-> d[i].name]
DictGet(d, name, default) ==
    IF \E i \in 1..Len(d) : d[i].name = name
    THEN d[CHOOSE i \in 1..Len(d) : d[i].name = name].rows
    ELSE default

\* DashboardView.__init__, _update_rows, set_sections and handle_key
DashboardView ==
    [sections |-> <<>>, section_names |-> <<>>, active |-> 0,
     rows |-> <<>>, scroll |-> 0]
NoDashboards == <<"(no dashboards available)">>
_update_rows(view) ==
    IF view.section_names = <<>>
    THEN [view EXCEPT !.rows = NoDashboards]
    ELSE [view EXCEPT
            !.rows = DictGet(view.sections,
                             view.section_names[view.active + 1], <<>>),
            !.scroll = 0]
DashboardView_set_sections(view, sections_dict) ==
    _update_rows([view EXCEPT !.sections = sections_dict,
                              !.section_names = DictKeys(sections_dict),
                              !.active = 0])
DashboardView_handle_key(view, k) ==
    IF view.section_names = <<>> THEN view
    ELSE IF k = KEY_LEFT
    THEN _update_rows([view EXCEPT
            !.active = (view.active - 1) % Len(view.section_names)])
    ELSE IF k = KEY_RIGHT
    THEN _update_rows([view EXCEPT
            !.active = (view.active + 1) % Len(view.section_names)])
    ELSE IF k = KEY_UP THEN [view EXCEPT !.scroll = max(0, view.scroll - 1)]
    ELSE IF k = KEY_DOWN
    THEN [view EXCEPT !.scroll = min(Len(view.rows) - 1, view.scroll + 1)]
    ELSE view


\* CoreSightApp: the key loop of run() and its four mode handlers
MaxInput == 2      \* longest text typed into the search box or the path
MaxCursor == 3     \* no character is typed with the cursor at or beyond it

menu_options ==
    <<"1. Ingest Logs", "2. Run Search Query", "3. View Dashboards", "4. Exit">>
Keys ==
    {KEY_UP, KEY_DOWN, KEY_LEFT, KEY_RIGHT, KEY_BACKSPACE, DEL, ENTER, ESC,
     9, ord("a"), ord("b"), ord("q")}     \* 9 (tab): a key that no handler knows

\* the row lists that a search puts in the table (results, an error
\* message, the examples): none is empty
AppRowLists == {<<"row 1">>, <<"row 1", "row 2">>}
\* Dashboard.build_all_dashboards: five named sections, each with a content
\* that starts with its header lines (here the same length in every section)
DashboardNames ==
    <<"HTTP Status Codes", "Events Over Time", "Top IPs", "Failed Logins",
      "Logs per Service">>
AppDashboards ==
    {[i \in 1..Len(DashboardNames) |->
        [name |-> DashboardNames[i], rows |-> content]] :
            content \in AppRowLists}

\* run(): the key q ends the loop in every mode
Quit(k) ==
    /\ urunning
    /\ k = ord("q")
    /\ urunning' = FALSE
    /\ UNCHANGED <<umode, umenu_selection, uingest_buffer, uinput, utable,
                   udashboard_view>>
    /\ UNCHANGED <<evars, ivars, svars, qvars, pvars, dvars>>

\* handle_menu_mode(k)
HandleMenuMode(k) ==
    /\ urunning
    /\ k # ord("q")
    /\ umode = "menu"
    /\ IF k = KEY_UP THEN
          /\ umenu_selection' = (umenu_selection - 1) % Len(menu_options)
          /\ UNCHANGED <<umode, uingest_buffer, uinput, utable,
                         udashboard_view>>
       ELSE IF k = KEY_DOWN THEN
          /\ umenu_selection' = (umenu_selection + 1) % Len(menu_options)
          /\ UNCHANGED <<umode, uingest_buffer, uinput, utable,
                         udashboard_view>>
       ELSE IF k = ENTER /\ umenu_selection = 0 THEN
          /\ umode' = "ingest"
          /\ uingest_buffer' = <<>>
          /\ UNCHANGED <<umenu_selection, uinput, utable, udashboard_view>>
       ELSE IF k = ENTER /\ umenu_selection = 1 THEN
          /\ umode' = "search"
          /\ uinput' = [uinput EXCEPT !.value = <<>>]
          \* load_default_search_data()
          /\ \E rows \in AppRowLists : utable' = TableView_set_rows(utable, rows)
          /\ UNCHANGED <<umenu_selection, uingest_buffer, udashboard_view>>
       ELSE IF k = ENTER /\ umenu_selection = 2 THEN
          \* load_dashboards()
          /\ \E sections \in AppDashboards :
                udashboard_view' =
                    DashboardView_set_sections(udashboard_view, sections)
          /\ umode' = "dashboard"
          /\ UNCHANGED <<umenu_selection, uingest_buffer, uinput, utable>>
       ELSE
          UNCHANGED <<umode, umenu_selection, uingest_buffer, uinput, utable,
                      udashboard_view>>
    /\ UNCHANGED urunning
    /\ UNCHANGED <<evars, ivars, svars, qvars, pvars, dvars>>

\* handle_ingest_mode(k); what ingest_file does to the Store is the subject
\* of SpecIngest
HandleIngestMode(k) ==
    /\ urunning
    /\ k # ord("q")
    /\ umode = "ingest"
    /\ ~(32 <= k /\ k <= 126 /\ Len(uingest_buffer) >= MaxInput)
    /\ IF k = ESC THEN
          /\ umode' = "menu"
          /\ UNCHANGED uingest_buffer
       ELSE IF k \in {KEY_BACKSPACE, DEL} THEN
          /\ uingest_buffer' = SliceTo(uingest_buffer, -1)
          /\ UNCHANGED umode
       ELSE IF k = ENTER THEN
          /\ umode' = "menu"
          /\ UNCHANGED uingest_buffer
       ELSE IF 32 <= k /\ k <= 126 THEN
          /\ uingest_buffer' = uingest_buffer \o <<chr(k)>>
          /\ UNCHANGED umode
       ELSE
          UNCHANGED <<umode, uingest_buffer>>
    /\ UNCHANGED <<umenu_selection, uinput, utable, udashboard_view, urunning>>
    /\ UNCHANGED <<evars, ivars, svars, qvars, pvars, dvars>>

\* handle_search_mode(k); execute_search() always ends in a set_rows of a
\* list that is not empty
HandleSearchMode(k) ==
    /\ urunning
    /\ k # ord("q")
    /\ umode = "search"
    /\ ~(/\ 32 <= k /\ k <= 126
         /\ Len(uinput.value) >= MaxInput \/ uinput.cursor >= MaxCursor)
    /\ IF k = ESC THEN
          /\ umode' = "menu"
          /\ UNCHANGED <<uinput, utable>>
       ELSE IF k \in {KEY_UP, KEY_DOWN} THEN
          /\ utable' = TableView_handle_key(utable, k)
          /\ UNCHANGED <<umode, uinput>>
       ELSE IF k = ENTER THEN
          /\ \E rows \in AppRowLists : utable' = TableView_set_rows(utable, rows)
          /\ UNCHANGED <<umode, uinput>>
       ELSE
          /\ uinput' = InputBox_handle_key(uinput, k)
          /\ UNCHANGED <<umode, utable>>
    /\ UNCHANGED <<umenu_selection, uingest_buffer, udashboard_view, urunning>>
    /\ UNCHANGED <<evars, ivars, svars, qvars, pvars, dvars>>

\* handle_dashboard_mode(k)
HandleDashboardMode(k) ==
    /\ urunning
    /\ k # ord("q")
    /\ umode = "dashboard"
    /\ IF k = ESC THEN
          /\ umode' = "menu"
          /\ UNCHANGED udashboard_view
       ELSE
          /\ udashboard_view' = DashboardView_handle_key(udashboard_view, k)
          /\ UNCHANGED umode
    /\ UNCHANGED <<umenu_selection, uingest_buffer, uinput, utable, urunning>>
    /\ UNCHANGED <<evars, ivars, svars, qvars, pvars, dvars>>

ANext ==
    \E k \in Keys :
        \/ Quit(k)
        \/ HandleMenuMode(k)
        \/ HandleIngestMode(k)
        \/ HandleSearchMode(k)
        \/ HandleDashboardMode(k)
SpecApp == Init /\ [][ANext]_vars

\* C29: in the key loop, whatever the keys pressed and the modes gone
\* through, the cursor of the search box stays within its value,
\* 0 <= cursor <= len(value), and a printable character typed in search mode
\* is inserted into the current value at the cursor position.
CursorInValue(box) == 0 <= box.cursor /\ box.cursor <= Len(box.value)
InsertedAtCursor(box, c, after) ==
    /\ CursorInValue(box)
    /\ after.value = SubSeq(box.value, 1, box.cursor) \o <<c>>
                        \o SubSeq(box.value, box.cursor + 1, Len(box.value))
TypedInSearchMode(k) ==
    /\ umode = "search"
    /\ 32 <= k /\ k <= 126
    /\ Quit(k) \/ HandleSearchMode(k)
C29_SearchCursorStaysInValue ==
    /\ [](CursorInValue(uinput))
    /\ [][\A k \in Keys :
            TypedInSearchMode(k) => InsertedAtCursor(uinput, chr(k), uinput')]_vars


-----------------------------------------------------------------------------
\* The two scrolling views on their own: any sequence of set_rows,
\* set_sections and handle_key calls, as a caller of the classes may make.

\* row lists given to set_rows and as section contents
ViewRowLists == {<<>>} \cup AppRowLists
\* dicts given to set_sections: no section, one section, two sections
ViewSections ==
    {<<>>}
    \cup {<<[name |-> "A", rows |-> r]>> : r \in ViewRowLists}
    \cup {<<[name |-> "A", rows |-> r1], [name |-> "B", rows |-> r2]>> :
            r1 \in ViewRowLists, r2 \in ViewRowLists}

TableSetRows(rows) ==
    /\ utable' = TableView_set_rows(utable, rows)
    /\ UNCHANGED <<umode, umenu_selection, uingest_buffer, uinput,
                   udashboard_view, urunning>>
    /\ UNCHANGED <<evars, ivars, svars, qvars, pvars, dvars>>
TableHandleKey(k) ==
    /\ utable' = TableView_handle_key(utable, k)
    /\ UNCHANGED <<umode, umenu_selection, uingest_buffer, uinput,
                   udashboard_view, urunning>>
    /\ UNCHANGED <<evars, ivars, svars, qvars, pvars, dvars>>
DashboardSetSections(sections_dict) ==
    /\ udashboard_view' =
            DashboardView_set_sections(udashboard_view, sections_dict)
    /\ UNCHANGED <<umode, umenu_selection, uingest_buffer, uinput, utable,
                   urunning>>
    /\ UNCHANGED <<evars, ivars, svars, qvars, pvars, dvars>>
DashboardHandleKey(k) ==
    /\ udashboard_view' = DashboardView_handle_key(udashboard_view, k)
    /\ UNCHANGED <<umode, umenu_selection, uingest_buffer, uinput, utable,
                   urunning>>
    /\ UNCHANGED <<evars, ivars, svars, qvars, pvars, dvars>>

VNext ==
    \/ \E rows \in ViewRowLists : TableSetRows(rows)
    \/ \E k \in Keys : TableHandleKey(k)
    \/ \E sections_dict \in ViewSections : DashboardSetSections(sections_dict)
    \/ \E k \in Keys : DashboardHandleKey(k)
SpecViews == Init /\ [][VNext]_vars

\* C30: after any sequence of set_rows / set_sections calls and arrow keys,
\* the scroll offset of the TableView and of the DashboardView satisfies
\* 0 <= scroll <= max(0, len(rows) - 1), also when the row list is empty, and
\* a step that changes the rows or the active section leaves scroll at 0.
ScrollInRange(view) ==
    0 <= view.scroll /\ view.scroll <= max(0, Len(view.rows) - 1)
ScrollResetOnChange ==
    /\ utable'.rows # utable.rows => utable'.scroll = 0
    /\ (\/ udashboard_view'.rows # udashboard_view.rows
        \/ udashboard_view'.active # udashboard_view.active)
            => udashboard_view'.scroll = 0
C30_ScrollStaysInRows ==
    /\ [](ScrollInRange(utable) /\ ScrollInRange(udashboard_view))
    /\ [][ScrollResetOnChange]_vars


-----------------------------------------------------------------------------
\* Ingestion of text: the three parsers and LogIngester on the characters of
\* a line.  Of the dictionary that a parser returns, the timestamp is
\* modelled; the other fields are the subject of SpecIngest.

\* datetime.strptime(text, fmt).  A template is the sequence of its
\* directives and literal characters; _strptime turns it into a regular
\* expression (a blank becomes \s+, the letters match in either case), takes
\* the first match in the order of the alternatives, and raises ValueError
\* when text remains after the match or the fields are no date and time.
FmtIsoT        == <<"%Y", "-", "%m", "-", "%d", "T", "%H", ":", "%M", ":", "%S">>
FmtIsoSpace    == <<"%Y", "-", "%m", "-", "%d", " ", "%H", ":", "%M", ":", "%S">>
FmtIsoFraction == FmtIsoT \o <<".", "%f">>
FmtIsoZone     == FmtIsoT \o <<"%z">>
FmtAccess      == <<"%d", "/", "%b", "/", "%Y", ":", "%H", ":", "%M", ":", "%S">>
FmtAccessZone  == FmtAccess \o <<" ", "%z">>
FmtClassicYear == <<"%b", " ", "%d", " ", "%H", ":", "%M", ":", "%S", " ", "%Y">>

Directives == {"%Y", "%m", "%d", "%H", "%M", "%S", "%f", "%z", "%b"}
MonthAbbr ==
    <<<<"j", "a", "n">>, <<"f", "e", "b">>, <<"m", "a", "r">>, <<"a", "p", "r">>, <<"m", "a", "y">>, <<"j", "u", "n">>,
      <<"j", "u", "l">>, <<"a", "u", "g">>, <<"s", "e", "p">>, <<"o", "c", "t">>, <<"n", "o", "v">>, <<"d", "e", "c">>>>

\* the character at index i, "" outside the text
At(text, i) == IF i >= 1 /\ i <= Len(text) THEN text[i] ELSE ""
\* the length of the run of characters of cls at index i, 0 outside the text
Run(text, i, cls) == IF i < 1 \/ i > Len(text) THEN 0 ELSE RunLength(text, i, cls)
DigitAt(text, i) == IsDigit(At(text, i))
InChars(c, lo, hi) == IsDigit(c) /\ DigitVal(c) >= lo /\ DigitVal(c) <= hi
\* the lengths n..1, longest first
Descending(n) == [j \in 1..n |-> n + 1 - j]
If(cond, seq) == IF cond THEN seq ELSE <<>>

\* the end of [+-]\d\d:?[0-5]\d(:?[0-5]\d(\.\d{1,6})?)? at i, the optional
\* parts taken when they are there: its length, 0 when it does not match
ZoneLength(text, i) ==
    IF ~(At(text, i) \in {"+", "-"} /\ DigitAt(text, i + 1) /\ DigitAt(text, i + 2))
    THEN 0
    ELSE LET m == IF At(text, i + 3) = ":" THEN i + 4 ELSE i + 3 IN
         IF ~(InChars(At(text, m), 0, 5) /\ DigitAt(text, m + 1)) THEN 0
         ELSE LET s == IF At(text, m + 2) = ":" THEN m + 3 ELSE m + 2 IN
              IF ~(InChars(At(text, s), 0, 5) /\ DigitAt(text, s + 1))
              THEN m + 2 - i
              ELSE IF At(text, s + 2) = "." /\ DigitAt(text, s + 3)
              THEN s + 3 + min(6, Run(text, s + 3, Range(Digits))) - i
              ELSE s + 2 - i

\* the lengths that directive (or literal) d can take at index i of text, in
\* the order in which the regular expression tries them
Candidates(d, text, i) ==
    LET c1 == At(text, i)
        c2 == At(text, i + 1)
    IN
    IF d = "%Y" THEN If(\A j \in i..(i + 3) : DigitAt(text, j), <<4>>)
    ELSE IF d = "%m" THEN
        If((c1 = "1" /\ InChars(c2, 0, 2)) \/ (c1 = "0" /\ InChars(c2, 1, 9)), <<2>>)
          \o If(InChars(c1, 1, 9), <<1>>)
    ELSE IF d = "%d" THEN
        If(\/ c1 = "3" /\ InChars(c2, 0, 1)
           \/ InChars(c1, 1, 2) /\ IsDigit(c2)
           \/ c1 = "0" /\ InChars(c2, 1, 9), <<2>>)
          \o If(InChars(c1, 1, 9), <<1>>)
          \o If(c1 = " " /\ InChars(c2, 1, 9), <<2>>)
    ELSE IF d = "%H" THEN
        If((c1 = "2" /\ InChars(c2, 0, 3)) \/ (InChars(c1, 0, 1) /\ IsDigit(c2)), <<2>>)
          \o If(IsDigit(c1), <<1>>)
    ELSE IF d = "%M" THEN
        If(InChars(c1, 0, 5) /\ IsDigit(c2), <<2>>) \o If(IsDigit(c1), <<1>>)
    ELSE IF d = "%S" THEN
        If((c1 = "6" /\ InChars(c2, 0, 1)) \/ (InChars(c1, 0, 5) /\ IsDigit(c2)), <<2>>)
          \o If(IsDigit(c1), <<1>>)
    ELSE IF d = "%f" THEN
        Descending(min(6, Run(text, i, Range(Digits))))
    ELSE IF d = "%b" THEN
        If(i + 2 <= Len(text) /\ Lower(SubSeq(text, i, i + 2)) \in Range(MonthAbbr), <<3>>)
    ELSE IF d = "%z" THEN
        If(ZoneLength(text, i) > 0, <<ZoneLength(text, i)>>) \o If(c1 = "Z", <<1>>)
    ELSE IF d = " " THEN Descending(Run(text, i, Whitespace))
    ELSE If(c1 # "" /\ LowerChar(c1) = LowerChar(d), <<1>>)

\* the first match of the expression of fmt from directive k on, at index i:
\* None, or the index after the match and the text of each directive
RECURSIVE StrpMatch(_, _, _, _, _)
StrpMatch(fmt, k, text, i, found) ==
    IF k > Len(fmt) THEN [tag |-> "ok", end |-> i, found |-> found]
    ELSE
      LET cands == Candidates(fmt[k], text, i)
          rest(n) ==
              StrpMatch(fmt, k + 1, text, i + cands[n],
                        IF fmt[k] \in Directives
                        THEN [found EXCEPT ![fmt[k]] = SubSeq(text, i, i + cands[n] - 1)]
                        ELSE found)
          hits == {n \in 1..Len(cands) : rest(n).tag = "ok"}
      IN IF hits = {} THEN None
         ELSE rest(CHOOSE n \in hits : \A o \in hits : n <= o)

\* the fraction of %f in microseconds: the digits padded to six
Microseconds(digits) ==
    ToInt(digits \o [j \in 1..(6 - Len(digits)) |-> "0"])

\* the offset of %z in seconds and microseconds: None when a ValueError is
\* raised (a colon in one place only, an offset of 24 hours or more)
ZoneOffset(z) ==
    IF z = <<"Z">> THEN [tag |-> "ok", sign |-> "+", seconds |-> 0, micro |-> 0]
    ELSE LET colon == At(z, 4) = ":"
             z1 == IF colon THEN SubSeq(z, 1, 3) \o SubSeq(z, 5, Len(z)) ELSE z
         IN
         IF (colon /\ Len(z1) > 5 /\ z1[6] # ":") \/ (~colon /\ At(z, 6) = ":")
         THEN None
         ELSE LET z2 == IF colon /\ Len(z1) > 5
                        THEN SubSeq(z1, 1, 5) \o SubSeq(z1, 7, Len(z1)) ELSE z1
                  off == ToInt(SubSeq(z2, 2, 3)) * 3600 + ToInt(SubSeq(z2, 4, 5)) * 60
                           + (IF Len(z2) >= 7 THEN ToInt(SubSeq(z2, 6, 7)) ELSE 0)
                  micro == IF Len(z2) > 8
                           THEN Microseconds(SubSeq(z2, 9, Len(z2))) ELSE 0
              IN IF off >= 86400 THEN None
                 ELSE [tag |-> "ok", seconds |-> off, micro |-> micro,
                       sign |-> IF off = 0 /\ micro = 0 THEN "+" ELSE z2[1]]

NoFields == [d \in Directives |-> <<>>]
\* datetime.strptime(text, fmt): None for a ValueError, else the datetime
datetime_strptime(text, fmt) ==
    LET m == StrpMatch(fmt, 1, text, 1, NoFields) IN
    IF m.tag # "ok" \/ m.end # Len(text) + 1 THEN None
    ELSE
      LET f == m.found
          fields == [year   |-> ToInt(f["%Y"]),
                     month  |-> IF "%b" \in Range(fmt)
                                THEN IndexOf(MonthAbbr, Lower(f["%b"]))
                                ELSE ToInt(f["%m"]),
                     day    |-> ToInt(LStrip(f["%d"], {" "})),
                     hour   |-> ToInt(f["%H"]),
                     minute |-> ToInt(f["%M"]),
                     second |-> ToInt(f["%S"])]
          zone == IF "%z" \in Range(fmt) THEN ZoneOffset(f["%z"])
                  ELSE [tag |-> "naive"]
      IN IF zone = None \/ ~ValidDateTime(fields) THEN None
         ELSE [tag |-> "datetime", fields |-> fields,
               microsecond |-> Microseconds(f["%f"]), zone |-> zone]

\* datetime.isoformat() of such a datetime
FourDigits(n) == TwoDigits(n \div 100) \o TwoDigits(n % 100)
OffsetText(zone) ==
    LET a == zone.seconds IN
    <<zone.sign>> \o TwoDigits(a \div 3600) \o <<":">>
      \o TwoDigits((a \div 60) % 60)
      \o (IF a % 60 # 0 \/ zone.micro # 0 THEN <<":">> \o TwoDigits(a % 60) ELSE <<>>)
      \o (IF zone.micro # 0 THEN <<".">> \o SixDigits(zone.micro) ELSE <<>>)
datetime_isoformat(dt) ==
    isoformat([date  |-> FourDigits(dt.fields.year) \o <<"-">>
                           \o TwoDigits(dt.fields.month) \o <<"-">>
                           \o TwoDigits(dt.fields.day),
               sod   |-> dt.fields.hour * 3600 + dt.fields.minute * 60
                           + dt.fields.second,
               micro |-> dt.microsecond])
      \o (IF dt.zone.tag = "ok" THEN OffsetText(dt.zone) ELSE <<>>)

\* for fmt in templates: try: return strptime(text, fmt).isoformat()
\* except ValueError: continue -- and the value given when none parses
RECURSIVE TryTemplates(_, _, _)
TryTemplates(templates, text, otherwise) ==
    IF templates = <<>> THEN otherwise
    ELSE LET dt == datetime_strptime(text, Head(templates)) IN
         IF dt # None THEN datetime_isoformat(dt)
         ELSE TryTemplates(Tail(templates), text, otherwise)

\* datetime.now().year on the clock of the model
current_year == <<"2", "0", "2", "5">>

\* SyslogParser._parse_iso_timestamp and _parse_classic_timestamp
SyslogIsoTemplates == <<FmtIsoT, FmtIsoSpace, FmtIsoFraction, FmtIsoZone>>
Syslog_parse_iso_timestamp(ts_str) ==
    TryTemplates(SyslogIsoTemplates, SliceTo(ts_str, 19), ts_str)
Syslog_parse_classic_timestamp(ts_str) ==
    TryTemplates(<<FmtClassicYear>>, ts_str \o <<" ">> \o current_year, ts_str)

\* AuthParser._parse_iso_timestamp and _parse_classic_timestamp
AuthIsoTemplates == <<FmtIsoT, FmtIsoSpace>>
Auth_parse_iso_timestamp(ts_str) ==
    TryTemplates(AuthIsoTemplates, SliceTo(ts_str, 19), ts_str)
Auth_parse_classic_timestamp(ts_str) ==
    TryTemplates(<<FmtClassicYear>>, ts_str \o <<" ">> \o current_year, ts_str)

\* AccessParser._parse_timestamp
AccessTemplates == <<FmtAccessZone, FmtAccess, FmtIsoSpace>>
Access_parse_timestamp(raw_ts) == TryTemplates(AccessTemplates, raw_ts, raw_ts)


\* ^\d{4}-\d{2}-\d{2}[T ]\d{2}:\d{2}:\d{2} at the start of the line
IsoStampShape(line) == DateTimeShape(line, "T") \/ DateTimeShape(line, " ")
\* the length of ...(?:\.\d+)?(?:[+-]\d{2}:\d{2}|Z)? at the start of a line
\* of that shape
IsoStampLength(line) ==
    LET f == IF At(line, 20) = "." /\ DigitAt(line, 21)
             THEN 20 + Run(line, 21, Range(Digits)) ELSE 19
        z == IF At(line, f + 1) = "Z" THEN 1
             ELSE IF /\ At(line, f + 1) \in {"+", "-"}
                     /\ DigitAt(line, f + 2) /\ DigitAt(line, f + 3)
                     /\ At(line, f + 4) = ":"
                     /\ DigitAt(line, f + 5) /\ DigitAt(line, f + 6)
             THEN 6 ELSE 0
    IN f + z
\* the length of ^[A-Z][a-z]{2}\s+\d{1,2}\s+\d{2}:\d{2}:\d{2} at the start of
\* the line, 0 when it does not match
ClassicStampLength(line) ==
    IF ~(IsUpper(At(line, 1)) /\ IsLower(At(line, 2)) /\ IsLower(At(line, 3))
         /\ At(line, 4) \in Whitespace)
    THEN 0
    ELSE LET d == 4 + Run(line, 4, Whitespace)
             n == min(2, Run(line, d, Range(Digits)))
             t == d + n + Run(line, d + n, Whitespace)
         IN IF /\ n >= 1 /\ t > d + n
               /\ \A j \in {t, t + 1, t + 3, t + 4, t + 6, t + 7} : DigitAt(line, j)
               /\ At(line, t + 2) = ":" /\ At(line, t + 5) = ":"
            THEN t + 7 ELSE 0
\* \s+(\S+)\s+(\S+)(?:\[(\d+)\])?:\s*(.*)$ from index p: a host, then a
\* word with a colon after its first character
HostServiceFrom(line, p) ==
    LET h == p + Run(line, p, Whitespace)
        s == h + Run(line, h, {c \in Range(line) : c \notin Whitespace})
        w == s + Run(line, s, Whitespace)
        e == w + Run(line, w, {c \in Range(line) : c \notin Whitespace})
    IN /\ p <= Len(line) /\ h > p /\ s > h /\ w > s
       /\ \E j \in (w + 1)..(e - 1) : line[j] = ":"

\* what a parser gives for the timestamp: the raw substring, the function
\* that normalizes it and its result
Stamp(ts_str, norm, timestamp) ==
    [tag |-> "ok", ts_str |-> ts_str, norm |-> norm, timestamp |-> timestamp]

\* SyslogParser.parse(line) on the text of a stripped line
SyslogParser_parse_text(line) ==
    LET iso == IsoStampLength(line)
        classic == ClassicStampLength(line)
    IN
    IF IsoStampShape(line) /\ HostServiceFrom(line, iso + 1)
    THEN Stamp(SubSeq(line, 1, iso), "syslog_iso",
               Syslog_parse_iso_timestamp(SubSeq(line, 1, iso)))
    ELSE IF classic > 0 /\ HostServiceFrom(line, classic + 1)
    THEN Stamp(SubSeq(line, 1, classic), "syslog_classic",
               Syslog_parse_classic_timestamp(SubSeq(line, 1, classic)))
    ELSE IF IsoStampShape(line)
    THEN Stamp(SubSeq(line, 1, 19), "syslog_iso",
               Syslog_parse_iso_timestamp(SubSeq(line, 1, 19)))
    ELSE IF classic > 0
    THEN Stamp(SubSeq(line, 1, classic), "syslog_classic",
               Syslog_parse_classic_timestamp(SubSeq(line, 1, classic)))
    ELSE None

\* AuthParser.parse(line) on the text of a stripped line
AuthParser_parse_text(line) ==
    LET classic == ClassicStampLength(line) IN
    IF IsoStampShape(line)
    THEN Stamp(SubSeq(line, 1, 19), "auth_iso",
               Auth_parse_iso_timestamp(SubSeq(line, 1, 19)))
    ELSE IF classic > 0
    THEN Stamp(SubSeq(line, 1, classic), "auth_classic",
               Auth_parse_classic_timestamp(SubSeq(line, 1, classic)))
    ELSE None

\* AccessParser.PATTERN on a stripped line: 0, or the index of the [ that
\* opens the timestamp.  Three words, the bracket up to the first ], the
\* quoted request, a status of three digits and a size.
NonBlank(line) == {c \in Range(line) : c \notin Whitespace}
AccessPatternBracket(line) ==
    LET a1 == 1 + Run(line, 1, NonBlank(line))
        b1 == a1 + Run(line, a1, Whitespace)
        a2 == b1 + Run(line, b1, NonBlank(line))
        b2 == a2 + Run(line, a2, Whitespace)
        a3 == b2 + Run(line, b2, NonBlank(line))
        b3 == a3 + Run(line, a3, Whitespace)
        close == b3 + 1 + Run(line, b3 + 1, Range(line) \ {"]"})
        q == close + 1 + Run(line, close + 1, Whitespace)
        m == q + 1 + Run(line, q + 1, {c \in Range(line) : IsWord(c)})
        e == m + Run(line, m, Whitespace)
        r == e + Run(line, e, NonBlank(line) \ {"\""})
        t == r + Run(line, r, Range(line) \ {"\""})
        s == t + 1 + Run(line, t + 1, Whitespace)
        z == s + 3 + Run(line, s + 3, Whitespace)
    IN
    IF /\ a1 > 1 /\ b1 > a1 /\ a2 > b1 /\ b2 > a2 /\ a3 > b2 /\ b3 > a3
       /\ At(line, b3) = "[" /\ close > b3 + 1 /\ At(line, close) = "]"
       /\ q > close + 1 /\ At(line, q) = "\""
       /\ m > q + 1 /\ e > m /\ r > e
       /\ t = r \/ (t >= r + 2 /\ At(line, r) \in Whitespace)
       /\ At(line, t) = "\""
       /\ s > t + 1
       /\ \A j \in s..(s + 2) : DigitAt(line, j)
       /\ z > s + 3
       /\ \/ z = Len(line) /\ At(line, z) = "-"
          \/ z <= Len(line) /\ z + Run(line, z, Range(Digits)) = Len(line) + 1
    THEN b3 ELSE 0

\* AccessParser.parse(line) on the text of a stripped line.  A line that
\* SIMPLE_PATTERN matches is matched by PATTERN before; of the lenient
\* pattern it is modelled that it needs a [ and a quote.
AccessParser_parse_text(line) ==
    LET open == AccessPatternBracket(line)
        raw_timestamp ==
            SubSeq(line, open + 1, open + Run(line, open + 1, Range(line) \ {"]"}))
    IN
    IF open > 0
    THEN Stamp(raw_timestamp, "access", Access_parse_timestamp(raw_timestamp))
    ELSE IF "[" \notin Range(line) \/ "\"" \notin Range(line) THEN None
    ELSE Unsupported

\* the branch of ingest_file for a log_type that is set
TextTypes == {<<"s", "y", "s", "l", "o", "g">>, <<"a", "c", "c", "e", "s", "s">>, <<"a", "u", "t", "h">>}
ParseText(log_type, line) ==
    IF log_type = <<"s", "y", "s", "l", "o", "g">> THEN SyslogParser_parse_text(line)
    ELSE IF log_type = <<"a", "c", "c", "e", "s", "s">> THEN AccessParser_parse_text(line)
    ELSE AuthParser_parse_text(line)


\* The lines read by SpecLines: timestamps of the two syslog dialects
\* followed by a host and a service or by a single word, access lines around
\* a bracketed timestamp, a line without timestamp and the empty line; each
\* also with blanks before and after it.
MaxTextRows == 2       \* lines stored by one behaviour

IsoStamps ==
    {<<"2", "0", "2", "5", "-", "0", "2", "-", "1", "3", "T", "1", "1", ":", "2", "2", ":", "3", "3">>, <<"2", "0", "2", "5", "-", "0", "2", "-", "1", "3", " ", "1", "1", ":", "2", "2", ":", "3", "3">>, <<"2", "0", "2", "5", "-", "0", "2", "-", "3", "0", "T", "1", "1", ":", "2", "2", ":", "3", "3">>,
     <<"2", "0", "2", "5", "-", "0", "2", "-", "1", "3", "T", "1", "1", ":", "2", "2", ":", "3", "3", ".", "5">>, <<"2", "0", "2", "5", "-", "0", "2", "-", "1", "3", "T", "1", "1", ":", "2", "2", ":", "3", "3", "Z">>,
     <<"2", "0", "2", "5", "-", "0", "2", "-", "1", "3", "T", "1", "1", ":", "2", "2", ":", "3", "3", ".", "5", "+", "0", "5", ":", "0", "0">>}
ClassicStamps == {<<"F", "e", "b", " ", "1", "3", " ", "1", "1", ":", "2", "2", ":", "3", "3">>, <<"F", "e", "b", " ", " ", "3", " ", "1", "1", ":", "2", "2", ":", "3", "3">>, <<"F", "e", "b", " ", "3", "0", " ", "1", "1", ":", "2", "2", ":", "3", "3">>}
AccessStamps ==
    {<<"1", "3", "/", "F", "e", "b", "/", "2", "0", "2", "5", ":", "1", "1", ":", "2", "2", ":", "3", "3", " ", "+", "0", "0", "0", "0">>, <<"1", "3", "/", "F", "e", "b", "/", "2", "0", "2", "5", ":", "1", "1", ":", "2", "2", ":", "3", "3">>,
     <<"2", "0", "2", "5", "-", "0", "2", "-", "1", "3", " ", "1", "1", ":", "2", "2", ":", "3", "3">>, <<"u", "n", "k", "n", "o", "w", "n">>, <<"3", "1", "/", "F", "e", "b", "/", "2", "0", "2", "5", ":", "1", "1", ":", "2", "2", ":", "3", "3", " ", "+", "0", "0", "0", "0">>,
     <<"1", "3", "/", "F", "e", "b", "/", "2", "0", "2", "5", ":", "1", "1", ":", "2", "2", ":", "3", "3", " ", "+", "9", "9", "0", "0">>}
TextRests == {<<" ", "h", "o", "s", "t", "1", " ", "c", "r", "o", "n", ":", " ", "j", "o", "b", " ", "d", "o", "n", "e">>, <<" ", "x">>}
PlainTextLines ==
    {s \o r : s \in IsoStamps \cup ClassicStamps, r \in TextRests}
      \cup {<<"1", ".", "1", ".", "1", ".", "1", " ", "-", " ", "-", " ", "[">> \o s \o <<"]", " ", "\"", "G", "E", "T", " ", "/", "a", "\"", " ", "2", "0", "0", " ", "5">> : s \in AccessStamps}
      \cup {<<"h", "e", "l", "l", "o">>, <<>>}
TextLines == PlainTextLines \cup {<<" ", " ">> \o l \o <<" ">> : l \in PlainTextLines}

\* ingest_file on the text of a line: the line is stripped, a blank line is
\* skipped, the parser of log_type is run.  The outcomes of the lines of the
\* model are computed once.
TextOutcome(line, log_type) ==
    LET stripped == Strip(line, Whitespace) IN
    [line |-> line, log_type |-> log_type, stripped |-> stripped,
     parsed |-> IF stripped = <<>> THEN [tag |-> "blank"]
                ELSE ParseText(log_type, stripped)]
TextOutcomes ==
    {o \in {TextOutcome(line, log_type) : line \in TextLines, log_type \in TextTypes} :
        o.parsed # Unsupported}

\* one iteration of the loop of ingest_file, with the flush of the batch: the
\* record of a parsed line is stored with the stripped text
IngestTextLine(o) ==
    /\ Len(logs) < MaxTextRows
    /\ pline' = o.line
    /\ ptype' = o.log_type
    /\ pparsed' = o.parsed
    /\ IF o.parsed.tag = "ok"
       THEN /\ logs' = InsertLog(logs, o.log_type,
                                 [timestamp |-> Text(o.parsed.timestamp)],
                                 o.stripped)
            /\ committed' = Len(logs')
       ELSE UNCHANGED svars
    /\ UNCHANGED <<evars, ivars, qvars, dvars, uvars>>

LNext == \E o \in TextOutcomes : IngestTextLine(o)
SpecLines == Init /\ [][LNext]_vars


\* C21: every record stored by ingestion has a timestamp that is a valid
\* ISO-8601 text (YYYY-MM-DDTHH:MM:SS of a real date and time, with or
\* without an offset) or exactly "unknown"; no stored timestamp is the raw
\* text of the line.
C21_StoredTimestampIsIsoOrUnknown ==
    \A n \in 1..Len(logs) :
        \/ logs[n].timestamp = Text(<<"u", "n", "k", "n", "o", "w", "n">>)
        \/ IsoTimestamp(logs[n].timestamp)

\* C22: the normalization of a timestamp tries its templates in list order
\* and gives the ISO-8601 rendering of the first template that parses the raw
\* substring (the classic template with the current year added to it); when
\* no template parses the raw substring the result is the raw substring.
NormTemplates(norm) ==
    IF norm = "syslog_iso" THEN SyslogIsoTemplates
    ELSE IF norm = "auth_iso" THEN AuthIsoTemplates
    ELSE IF norm = "access" THEN AccessTemplates
    ELSE <<FmtClassicYear>>
RenderingOfFirstParse(norm, raw) ==
    LET text == IF norm \in {"syslog_classic", "auth_classic"}
                THEN raw \o <<" ">> \o current_year ELSE raw
        templates == NormTemplates(norm)
        parsing == {k \in 1..Len(templates) :
                        datetime_strptime(text, templates[k]) # None}
    IN IF parsing = {} THEN raw
       ELSE datetime_isoformat(
                datetime_strptime(text,
                    templates[CHOOSE k \in parsing : \A o \in parsing : k <= o]))
C22_FirstParsingTemplateOrRaw ==
    pparsed.tag = "ok" =>
        pparsed.timestamp = RenderingOfFirstParse(pparsed.norm, pparsed.ts_str)

\* C23: every stored record has a raw field that is not empty and equals the
\* line it was read from, character for character, with the blanks that
\* the line begins and ends with.
C23_RawIsTheLineAsRead ==
    pparsed.tag = "ok" =>
        /\ logs[Len(logs)].raw # Text(<<>>)
        /\ logs[Len(logs)].raw = Text(pline)

=============================================================================
